---- MODULE Spec2Model ----
(***************************************************************************)
(* A model of the nand2oop chip-graph evaluation engine (crate hdl), of    *)
(* the constructors the #[chip] macro generates (crate hdl-macro) and of   *)
(* the chips of crate project that are built with them.                    *)
(*                                                                         *)
(* The arena is a sequence of node records; a reference to a node is its   *)
(* index.  A ChipOutputWrapper and a chip struct are immutable, so they    *)
(* are carried as values instead of being given an arena slot.             *)
(***************************************************************************)
EXTENDS Integers, Naturals, Sequences, FiniteSets, TLC

\* Machine.iteration, ChipOutput.iteration and Nand.iteration are u8.
TickBits == 8

\* Number of process() calls explored on the circuits of Spec.
MaxCalls == 3

\* Number of process() calls explored on the Not circuit of Spec: enough for
\* the u8 tick to pass 255.
LongRun == 258

\* Number of process() calls explored on the circuits of SpecArith.
ArithCalls == 2

\* Number of process() calls explored on the circuit of SpecAlu.
AluCalls == 1

\* Width that stands for the 16 of Adder16 / Incrementer16 and friends.
AdderWidth == 3

\* Width that stands for the 16 of the Alu.
AluWidth == 2

\* Number of process() calls explored on the circuits of SpecSeq.
SeqCalls == 2

\* Width that stands for the 16 of Register16.
RegWidth == 5

\* Largest number of fields of the record types of SpecData.
MaxFields == 3

\* Largest length of an array field of the record types of SpecData.
MaxArrayLen == 2

\* Number of process() calls made on a Machine that is graphed.
GraphProcessCalls == 1

VARIABLES
    arena,       \* Bump: the nodes of the circuit, with their Cell fields
    counters,    \* the static COUNTERs, one per node kind and chip type
    machine,     \* Machine {inputs, outputs, iteration}
    chip,        \* the chip type the Machine was constructed from
    status,      \* "constructed", "returned", "panicked" or "aborted"
    calls,       \* number of process() calls made so far
    input_vals,  \* argument of the last process() call
    ret,         \* value the last process() call returned
    evals,       \* per node: times its value was computed in the last call
    reads,       \* per node: times process() was called on it in the last call
    stamps,      \* per node: the stamp it had when it turned to its inputs in the last call
    data,        \* a StructuredData conversion: the type, the value, the results
    graph,       \* the MermaidGraph last made of the Machine, and its show_chips
    build,       \* a create_subchip call in progress: its closures, its point, A and B
    twin         \* the same chip constructed by the late-bound protocol, run in step

vars == <<arena, counters, machine, chip, status, calls, input_vals, ret, evals, reads, stamps,
          data, graph, build, twin>>

Pow2(n) == 2 ^ n

(***************************************************************************)
(* Arena and identifiers                                                   *)
(***************************************************************************)

NodeKinds == {"UserInput", "ChipInput", "ChipOutput", "Nand", "Output"}

ChipLabels ==
    {"Not", "And", "Or", "Xor", "Mux", "Demux", "Not16", "And16", "Mux16",
     "Ormult16", "Halfadder", "Fulladder", "Adder16", "Incrementer16",
     "Zeronum", "Negatenum", "Andorplus", "Alu", "Srlatch",
     "Dlatch", "Dflipflop", "Bit", "Register16",
     "Testchip", "Testchip2", "Latebound"}

\* A fresh process: empty arena, every static COUNTER at 0.
EmptyBuilder ==
    [arena |-> << >>, counters |-> [k \in NodeKinds \cup ChipLabels |-> 0]]

\* A process in which every static COUNTER has reached c0.
BuilderAt(c0) ==
    [arena |-> << >>, counters |-> [k \in NodeKinds \cup ChipLabels |-> c0]]

\* The COUNTERs are AtomicU32.  A u32 is held here as the 32-bit signed
\* integer with the same bits: 0 .. 2^31 - 1 as themselves, and
\* 2^31 .. 2^32 - 1 as -2^31 .. -1.
I32Max == 2147483647

\* COUNTER.fetch_add(1, Relaxed), the new counter value: the addition wraps
\* around on overflow, 2^32 - 1 (held as -1) is followed by 0.
fetch_add(c) == IF c = I32Max THEN -I32Max - 1 ELSE c + 1

\* a < b on the u32 values.
u32_lt(a, b) == IF (a >= 0) <=> (b >= 0) THEN a < b ELSE a >= 0

\* alloc.alloc(node) with id: COUNTER.fetch_add(1): the node gets the old
\* counter value and the counter of its kind moves on by one.
Alloc(b, kind, node) ==
    [b   |-> [arena    |-> Append(b.arena, node @@ [id |-> b.counters[kind]]),
              counters |-> [b.counters EXCEPT ![kind] = fetch_add(@)]],
     ref |-> Len(b.arena) + 1]

\* enum Input
Input_UserInput(r)  == [variant |-> "UserInput", ref |-> r]
Input_ChipOutput(w) == [variant |-> "ChipOutput", inner |-> w.inner, parent |-> w.parent]
Input_ChipInput(r)  == [variant |-> "ChipInput", ref |-> r]
Input_NandInput(r)  == [variant |-> "NandInput", ref |-> r]

\* enum ChipOutputType
ChipOutputType_ChipOutput(w) == [variant |-> "ChipOutput", inner |-> w.inner, parent |-> w.parent]
ChipOutputType_NandOutput(r) == [variant |-> "NandOutput", ref |-> r]
ChipOutputType_ChipInput(r)  == [variant |-> "ChipInput", ref |-> r]

\* A slot of a late-bound node that set_inputs has not written yet.
Unbound == [variant |-> "None"]

UserInput_from(b, val) ==
    Alloc(b, "UserInput", [kind |-> "UserInput", value |-> val])

UserInput_new(b) == UserInput_from(b, FALSE)

ChipInput_new(b, in_) ==
    Alloc(b, "ChipInput", [kind |-> "ChipInput", in_ |-> in_])

ChipOutput_new(b, out) ==
    Alloc(b, "ChipOutput",
          [kind |-> "ChipOutput", out |-> out, iteration |-> 0, value |-> FALSE])

Nand_new(b, in1, in2) ==
    Alloc(b, "Nand",
          [kind |-> "Nand", in1 |-> in1, in2 |-> in2, iteration |-> 0, value |-> FALSE])

ChipOutputWrapper_new(inner, parent) == [inner |-> inner, parent |-> parent]

\* Chip::get_id of a generated chip: format!("{label}{identifier}")
get_id(c) == <<c.label, c.identifier>>

\* The sequence f with every element computed: the arrays and Vecs of the
\* program hold values.
collect(f) == SubSeq(f, 1, Len(f))

\* K of the value of e: e is computed first, as the right-hand side of a
\* `let` is computed before the statements after it.
let(e, K(_)) == CHOOSE r \in {K(v) : v \in {e}} : TRUE

\* SizedChip::get_out: every ChipOutput wrapped with its owning chip.
get_out(c) == collect([i \in 1..Len(c.out) |-> ChipOutputWrapper_new(c.out[i], get_id(c))])

(***************************************************************************)
(* Chip functions                                                          *)
(*                                                                         *)
(* A chip function is written down as the list of the allocations it       *)
(* makes, in program order, and the sources of its outputs, in the flat    *)
(* order of its output record:                                             *)
(*   Nand(s1, s2)       Nand::new(alloc, s1.into(), s2.into())             *)
(*   Chip(L, <<s..>>)   L::new(alloc, s.into(), ..)                        *)
(*   Const(v)           UserInput::from(alloc, v)                          *)
(*   Subchip(f, g)      create_subchip(alloc, f, g) of two Nands, f and g  *)
(*                      the NandInputs the closures build                  *)
(*   Subchips(A, B, f, g)  create_subchip(alloc, f, g) of a chip of type A *)
(*                      and one of type B, f and g the input records the   *)
(*                      closures build, in flat order                      *)
(*   Default(L)         <L as DefaultChip>::new(alloc), with no set_inputs *)
(* and a source is                                                         *)
(*   In(i)              the chip function's i-th ChipInput (flat order)    *)
(*   Let(k)             the Nand or UserInput allocated by statement k     *)
(*   Out(k, j)          flat output j of the chip made by statement k,     *)
(*                      that is chip.get_out(alloc) at flat position j     *)
(*   Sub(k, j)          the j-th Nand of the create_subchip of statement k *)
(*   Peer               in a closure of create_subchip, its argument: the  *)
(*                      other Nand                                         *)
(*   SubOut(k, i, j)    flat output j of the i-th chip of the              *)
(*                      create_subchip of statement k                      *)
(*   PeerOut(j)         in a closure of create_subchip, flat output j of   *)
(*                      its argument: the other chip                       *)
(***************************************************************************)

Nand(s1, s2)    == [op |-> "Nand", in1 |-> s1, in2 |-> s2]
Chip(label, ss) == [op |-> "Chip", label |-> label, inputs |-> ss]
Const(v)        == [op |-> "UserInput", val |-> v]
In(i)           == [src |-> "in", i |-> i]
Let(k)          == [src |-> "let", k |-> k]
Out(k, j)       == [src |-> "out", k |-> k, j |-> j]
Subchip(f, g)   == [op |-> "Subchip", f |-> f, g |-> g]
Sub(k, j)       == [src |-> "sub", k |-> k, j |-> j]
Peer            == [src |-> "peer"]
Subchips(la, lb, f, g) == [op |-> "Subchips", la |-> la, lb |-> lb, f |-> f, g |-> g]
Default(label)  == [op |-> "Default", label |-> label]
SubOut(k, i, j) == [src |-> "subout", k |-> k, i |-> i, j |-> j]
PeerOut(j)      == [src |-> "peerout", j |-> j]

(***************************************************************************)
(* Chips of hdl-macro-test                                                 *)
(***************************************************************************)

\* in1, in2 -> UnaryChipOutput {out}
testchip ==
    [body |-> << Nand(In(1), In(2)) >>,
     out  |-> << Let(1) >>]

\* in1, in2 -> BinaryChipOutput {out1, out2}
testchip2 ==
    [body |-> << Chip("Testchip", <<In(1), In(2)>>),
                 Nand(In(1), Out(1, 1)) >>,
     out  |-> << Let(2), In(2) >>]

(***************************************************************************)
(* Chips of project: gates                                                 *)
(***************************************************************************)

\* in_ -> UnaryChipOutput {out}
not ==
    [body |-> << Nand(In(1), In(1)) >>,
     out  |-> << Let(1) >>]

\* in1, in2 -> UnaryChipOutput {out}
and ==
    [body |-> << Nand(In(1), In(2)),            \* nand
                 Chip("Not", <<Let(1)>>) >>,    \* not
     out  |-> << Out(2, 1) >>]

\* in1, in2 -> UnaryChipOutput {out}
or ==
    [body |-> << Chip("Not", <<In(1)>>),        \* not1
                 Chip("Not", <<In(2)>>),        \* not2
                 Nand(Out(1, 1), Out(2, 1)) >>, \* nand
     out  |-> << Let(3) >>]

\* in1, in2 -> UnaryChipOutput {out}
xor ==
    [body |-> << Chip("And", <<In(1), In(2)>>),           \* and
                 Chip("Not", <<Out(1, 1)>>),              \* not
                 Chip("Or",  <<In(1), In(2)>>),           \* or
                 Chip("And", <<Out(2, 1), Out(3, 1)>>) >>, \* and2
     out  |-> << Out(4, 1) >>]

\* mux with the operands of its two Ands exchanged.
mux_swapped ==
    [body |-> << Chip("And", <<In(1), In(3)>>),
                 Chip("Not", <<In(3)>>),
                 Chip("And", <<In(2), Out(2, 1)>>),
                 Chip("Or",  <<Out(1, 1), Out(3, 1)>>) >>,
     out  |-> << Out(4, 1) >>]

\* in1, in2, sel -> UnaryChipOutput {out}
mux ==
    [body |-> << Chip("And", <<In(2), In(3)>>),           \* and1
                 Chip("Not", <<In(3)>>),                  \* not
                 Chip("And", <<In(1), Out(2, 1)>>),       \* and2
                 Chip("Or",  <<Out(1, 1), Out(3, 1)>>) >>, \* or
     out  |-> << Out(4, 1) >>]

\* in_, sel -> BinaryChipOutput {out1: and2, out2: and1}
demux ==
    [body |-> << Chip("And", <<In(1), In(2)>>),           \* and1
                 Chip("Not", <<In(2)>>),                  \* not
                 Chip("And", <<In(1), Out(2, 1)>>) >>,    \* and2
     out  |-> << Out(3, 1), Out(1, 1) >> ]

\* In(lo), .., In(hi) and Out(k, 1), .., Out(k, w): an array passed whole.
Ins(lo, hi) == [i \in 1..(hi - lo + 1) |-> In(lo + i - 1)]
Outs(k, w)  == [j \in 1..w |-> Out(k, j)]

\* input: [_; w] -> ArrayLen16 {out}
not16(w) ==
    [body |-> [i \in 1..w |-> Chip("Not", <<In(i)>>)],
     out  |-> [i \in 1..w |-> Out(i, 1)]]

\* in1: [_; w], in2: [_; w] -> ArrayLen16 {out}
and16(w) ==
    [body |-> [i \in 1..w |-> Chip("And", <<In(i), In(w + i)>>)],
     out  |-> [i \in 1..w |-> Out(i, 1)]]

\* in1: [_; w], in2: [_; w], sel -> ArrayLen16 {out}
mux16(w) ==
    [body |-> [i \in 1..w |-> Chip("Mux", <<In(i), In(w + i), In(2 * w + 1)>>)],
     out  |-> [i \in 1..w |-> Out(i, 1)]]

\* in_: [_; w] -> UnaryChipOutput {out}: Or(in_[0], in_[1]), then every further
\* element or-ed with the accumulator.
ormult16(w) ==
    [body |-> [k \in 1..(w - 1) |->
                  IF k = 1 THEN Chip("Or", <<In(1), In(2)>>)
                  ELSE Chip("Or", <<In(k + 1), Out(k - 1, 1)>>)],
     out  |-> << Out(w - 1, 1) >>]

(***************************************************************************)
(* Chips of project: arithmetic                                            *)
(***************************************************************************)

\* num1, num2 -> AdderOut {sum, carry}
halfadder ==
    [body |-> << Chip("Xor", <<In(1), In(2)>>),    \* sum_bit
                 Chip("And", <<In(1), In(2)>>) >>, \* carry_bit
     out  |-> << Out(1, 1), Out(2, 1) >>]

\* num1, num2, num3 -> AdderOut {sum, carry}
fulladder ==
    [body |-> << Chip("Halfadder", <<In(1), In(2)>>),          \* first_hadder
                 Chip("Halfadder", <<In(3), Out(1, 1)>>),      \* second_hadder
                 Chip("Or", <<Out(1, 2), Out(2, 2)>>) >>,      \* carry_or
     out  |-> << Out(2, 1), Out(3, 1) >>]

\* adder16 that returns the sums in the order the adders were allocated.
adder16_unreversed(w) ==
    [body |-> [k \in 1..w |->
                  IF k = 1 THEN Chip("Halfadder", <<In(w), In(2 * w)>>)
                  ELSE Chip("Fulladder",
                            <<Out(k - 1, 2), In(w - k + 1), In(2 * w - k + 1)>>)],
     out  |-> [j \in 1..w |-> Out(j, 1)]]

\* num1: [_; w], num2: [_; w] -> ArrayLen16 {out}.  Statement 1 is lsb, the
\* Halfadder of the last elements; statement k > 1 is the Fulladder of the
\* previous carry and the elements k-1 places before the last.  out is the
\* sums in reverse order of allocation.
adder16(w) ==
    [body |-> [k \in 1..w |->
                  IF k = 1 THEN Chip("Halfadder", <<In(w), In(2 * w)>>)
                  ELSE Chip("Fulladder",
                            <<Out(k - 1, 2), In(w - k + 1), In(2 * w - k + 1)>>)],
     out  |-> [j \in 1..w |-> Out(w - j + 1, 1)]]

\* incrementer16 whose true constant is the first element, not the last.
incrementer16_true_first(w) ==
    [body |-> [k \in 1..(w + 1) |->
                  IF k = 1 THEN Const(TRUE)
                  ELSE IF k <= w THEN Const(FALSE)
                  ELSE Chip("Adder16", [i \in 1..w |-> Let(i)] \o Ins(1, w))],
     out  |-> Outs(w + 1, w)]

\* num: [_; w] -> ArrayLen16 {out}.  adder_inputs is w-1 UserInputs holding
\* false and one holding true; Adder16::new(alloc, adder_inputs, inputs).
incrementer16(w) ==
    [body |-> [k \in 1..(w + 1) |->
                  IF k < w THEN Const(FALSE)
                  ELSE IF k = w THEN Const(TRUE)
                  ELSE Chip("Adder16", [i \in 1..w |-> Let(i)] \o Ins(1, w))],
     out  |-> Outs(w + 1, w)]

(***************************************************************************)
(* Chips of project: the Alu                                               *)
(***************************************************************************)

\* num: [_; w], zero -> ArrayLen16 {out}
zeronum(w) ==
    [body |-> << Chip("Not16", [i \in 1..w |-> In(w + 1)]),      \* not_zero
                 Chip("And16", Ins(1, w) \o Outs(1, w)) >>,      \* zero_num
     out  |-> Outs(2, w)]

\* negatenum with the two data inputs of its Mux16 exchanged.
negatenum_inverted(w) ==
    [body |-> << Chip("Not16", Ins(1, w)),
                 Chip("Mux16", Outs(1, w) \o Ins(1, w) \o <<In(w + 1)>>) >>,
     out  |-> Outs(2, w)]

\* num: [_; w], negate -> ArrayLen16 {out}
negatenum(w) ==
    [body |-> << Chip("Not16", Ins(1, w)),                               \* not
                 Chip("Mux16", Ins(1, w) \o Outs(1, w) \o <<In(w + 1)>>) >>, \* mux_not_x
     out  |-> Outs(2, w)]

\* num1: [_; w], num2: [_; w], isadd -> ArrayLen16 {out}
andorplus(w) ==
    [body |-> << Chip("Adder16", Ins(1, 2 * w)),                         \* add_nums
                 Chip("And16", Ins(1, 2 * w)),                           \* and_nums
                 Chip("Mux16", Outs(2, w) \o Outs(1, w) \o <<In(2 * w + 1)>>) >>, \* mux
     out  |-> Outs(3, w)]

\* x: [_; w], y: [_; w], zx, zy, nx, ny, f, no -> AluOutputs {out: [_; w], zr, ng}
alu(w) ==
    [body |-> << Chip("Zeronum",   Ins(1, w) \o <<In(2 * w + 1)>>),         \* zero_x
                 Chip("Zeronum",   Ins(w + 1, 2 * w) \o <<In(2 * w + 2)>>), \* zero_y
                 Chip("Negatenum", Outs(1, w) \o <<In(2 * w + 3)>>),        \* not_x
                 Chip("Negatenum", Outs(2, w) \o <<In(2 * w + 4)>>),        \* not_y
                 Chip("Andorplus", Outs(3, w) \o Outs(4, w) \o <<In(2 * w + 5)>>), \* func
                 Chip("Negatenum", Outs(5, w) \o <<In(2 * w + 6)>>),        \* negate_result
                 Chip("Ormult16",  Outs(6, w)),                             \* is_non_zero
                 Chip("Not",       <<Out(7, 1)>>) >>,                       \* is_zero
     out  |-> Outs(6, w) \o << Out(8, 1), Out(6, 1) >>]

(***************************************************************************)
(* Chips of project: latches                                               *)
(***************************************************************************)

\* s, r -> LatchOutput {q, nq}
srlatch ==
    [body |-> << Subchip(<<In(1), Peer>>, <<In(2), Peer>>) >>,
     out  |-> << Sub(1, 1), Sub(1, 2) >>]

\* data, enable -> LatchOutput {q, nq}
dlatch ==
    [body |-> << Chip("Not", <<In(1)>>),                  \* notd
                 Nand(In(1), In(2)),                      \* nand1
                 Nand(Out(1, 1), In(2)),                  \* nand2
                 Chip("Srlatch", <<Let(2), Let(3)>>) >>,  \* srlatch
     out  |-> << Out(4, 1), Out(4, 2) >>]

\* data, clock -> LatchOutput {q, nq}
dflipflop ==
    [body |-> << Chip("Not", <<In(2)>>),                       \* invclock
                 Chip("Dlatch", <<In(1), In(2)>>),             \* latch1
                 Chip("Dlatch", <<Out(2, 1), Out(1, 1)>>) >>,  \* latch2
     out  |-> << Out(3, 1), Out(3, 2) >>]

\* in_, load, clock -> UnaryChipOutput {out}.  The Dflipflop's data is the
\* Mux's out, the Mux's in1 is the Dflipflop's q.
bit ==
    [body |-> << Subchips("Dflipflop", "Mux",
                          <<PeerOut(1), In(3)>>,             \* DflipflopInputs
                          <<PeerOut(1), In(1), In(2)>>) >>,  \* MuxInputs
     out  |-> << SubOut(1, 1, 1) >>]

\* in_: [_; w], load, clock -> ArrayLen16 {out}
register16(w) ==
    [body |-> [i \in 1..w |-> Chip("Bit", <<In(i), In(w + 1), In(w + 2)>>)],
     out  |-> [i \in 1..w |-> Out(i, 1)]]

\* A chip function that takes a Not by the late-bound protocol and returns
\* its out without ever calling set_inputs on it.
latebound ==
    [body |-> << Default("Not") >>,
     out  |-> << Out(1, 1) >>]

\* The chip function behind a chip type, given the number n of its flat
\* inputs (which fixes the width of its array arguments).
ChipFn(label, n) ==
    CASE label = "Testchip"      -> testchip
      [] label = "Testchip2"     -> testchip2
      [] label = "Not"           -> not
      [] label = "And"           -> and
      [] label = "Or"            -> or
      [] label = "Xor"           -> xor
      [] label = "Mux"           -> mux
      [] label = "Demux"         -> demux
      [] label = "Not16"         -> not16(n)
      [] label = "And16"         -> and16(n \div 2)
      [] label = "Mux16"         -> mux16((n - 1) \div 2)
      [] label = "Ormult16"      -> ormult16(n)
      [] label = "Halfadder"     -> halfadder
      [] label = "Fulladder"     -> fulladder
      [] label = "Adder16"       -> adder16(n \div 2)
      [] label = "Incrementer16" -> incrementer16(n)
      [] label = "Zeronum"       -> zeronum(n - 1)
      [] label = "Negatenum"     -> negatenum(n - 1)
      [] label = "Andorplus"     -> andorplus((n - 1) \div 2)
      [] label = "Alu"           -> alu((n - 6) \div 2)
      [] label = "Srlatch"       -> srlatch
      [] label = "Dlatch"        -> dlatch
      [] label = "Dflipflop"     -> dflipflop
      [] label = "Bit"           -> bit
      [] label = "Register16"    -> register16(n - 2)
      [] label = "Latebound"     -> latebound

(***************************************************************************)
(* The constructors #[chip] generates                                      *)
(***************************************************************************)

\* function_params: every argument wrapped in ChipInput::new, in argument
\* order, the elements of an array argument in index order.
RECURSIVE function_params(_, _, _)
function_params(b, inputs, refs) ==
    IF Len(refs) = Len(inputs) THEN [b |-> b, refs |-> refs]
    ELSE LET ci == ChipInput_new(b, inputs[Len(refs) + 1])
         IN function_params(ci.b, inputs, Append(refs, ci.ref))

\* to_flat(inner).map(|in_| ChipOutput::new(alloc, in_)), in flat order.
RECURSIVE chipout(_, _, _)
chipout(b, outs, refs) ==
    IF Len(refs) = Len(outs) THEN [b |-> b, refs |-> refs]
    ELSE LET co == ChipOutput_new(b, outs[Len(refs) + 1])
         IN chipout(co.b, outs, Append(refs, co.ref))

\* from_output: the chip struct, numbered by the COUNTER of its chip type.
from_output(b, label, out) ==
    [b    |-> [b EXCEPT !.counters[label] = fetch_add(@)],
     chip |-> [label |-> label, identifier |-> b.counters[label], out |-> out]]

\* s.into() where an Input is wanted.
into_Input(ins, env, s) ==
    CASE s.src = "in"  -> Input_ChipInput(ins[s.i])
      [] s.src = "let" -> IF env[s.k].kind = "Nand"
                          THEN Input_NandInput(env[s.k].ref)
                          ELSE Input_UserInput(env[s.k].ref)
      [] s.src = "out" -> Input_ChipOutput(get_out(env[s.k].chip)[s.j])
      [] s.src = "sub" -> Input_NandInput(env[s.k].refs[s.j])
      [] s.src = "subout" -> Input_ChipOutput(get_out(env[s.k].chips[s.i])[s.j])

\* s.into() where a ChipOutputType is wanted.
into_ChipOutputType(ins, env, s) ==
    CASE s.src = "in"  -> ChipOutputType_ChipInput(ins[s.i])
      [] s.src = "let" -> ChipOutputType_NandOutput(env[s.k].ref)
      [] s.src = "out" -> ChipOutputType_ChipOutput(get_out(env[s.k].chip)[s.j])
      [] s.src = "sub" -> ChipOutputType_NandOutput(env[s.k].refs[s.j])
      [] s.src = "subout" -> ChipOutputType_ChipOutput(get_out(env[s.k].chips[s.i])[s.j])

\* NandInputs { in1: ss[1].into(), in2: ss[2].into() } in a closure of
\* create_subchip whose argument is peer.
NandInputs(ins, env, ss, peer) ==
    [in1 |-> IF ss[1] = Peer THEN peer ELSE into_Input(ins, env, ss[1]),
     in2 |-> IF ss[2] = Peer THEN peer ELSE into_Input(ins, env, ss[2])]

\* Late-bound protocol of Nand: new(arena) leaves both slots unbound.
Nand_default(b) ==
    Alloc(b, "Nand",
          [kind |-> "Nand", in1 |-> Unbound, in2 |-> Unbound, iteration |-> 0, value |-> FALSE])

\* Late-bound protocol of Nand: set_inputs binds both slots.
Nand_set_inputs(b, n, inputs) ==
    [b EXCEPT !.arena[n].in1 = inputs.in1, !.arena[n].in2 = inputs.in2]

\* create_subchip(arena, f, g): both Nands are allocated unbound, then each
\* one's set_inputs is called with what its closure builds from the other.
\* The closures f and g are given by the sources of their NandInputs and
\* what they capture (ins, env).
create_subchip(b, ins, env, f, g) ==
    let(Nand_default(b), LAMBDA a :
    let(Nand_default(a.b), LAMBDA c :
        [b    |-> Nand_set_inputs(
                      Nand_set_inputs(c.b, a.ref,
                                      NandInputs(ins, env, f, Input_NandInput(c.ref))),
                      c.ref, NandInputs(ins, env, g, Input_NandInput(a.ref))),
         refs |-> <<a.ref, c.ref>>]))

RECURSIVE new(_, _, _)
RECURSIVE inner(_, _, _, _)

\* from_output over the ChipOutputs co.
from_chipout(co, label) == from_output(co.b, label, co.refs)

\* get_arity() of a chip type's output record; the chip types built by the
\* late-bound protocol have no array argument.
get_arity(label) == Len(ChipFn(label, 0).out)

\* ChipOutput::new_from_option(alloc, name, None), once per output.
RECURSIVE chipout_default(_, _, _)
chipout_default(b, nout, refs) ==
    IF Len(refs) = nout THEN [b |-> b, refs |-> refs]
    ELSE LET co == ChipOutput_new(b, Unbound)
         IN chipout_default(co.b, nout, Append(refs, co.ref))

\* <Label as DefaultChip>::new(alloc): the chip struct over ChipOutputs whose
\* source is not bound yet.
DefaultChip_new(b, label) ==
    from_chipout(chipout_default(b, get_arity(label), << >>), label)

\* The set_out loop that binds the outputs in reverse order.
set_out_reversed(b, out, outputs) ==
    [b EXCEPT !.arena = collect([n \in 1..Len(b.arena) |->
        IF \E i \in 1..Len(out) : out[i] = n
        THEN [b.arena[n] EXCEPT !.out =
                 outputs[Len(out) + 1 - CHOOSE i \in 1..Len(out) : out[i] = n]]
        ELSE b.arena[n]])]

\* The set_out loop that stops after the first output.
set_out_first(b, out, outputs) ==
    [b EXCEPT !.arena[out[1]].out = outputs[1]]

\* self.out[i].set_out(output) for every flat output.
set_out(b, out, outputs) ==
    [b EXCEPT !.arena = collect([n \in 1..Len(b.arena) |->
        IF \E i \in 1..Len(out) : out[i] = n
        THEN [b.arena[n] EXCEPT !.out = outputs[CHOOSE i \in 1..Len(out) : out[i] = n]]
        ELSE b.arena[n]])]

\* <Label as DefaultChip>::set_inputs(alloc, inputs): ChipInputs, then the
\* chip function, then every output bound to what the function returned.
DefaultChip_set_inputs(b, c, inputs) ==
    let(function_params(b, inputs, << >>), LAMBDA ci :
    let(inner(ci.b, ChipFn(c.label, Len(inputs)), ci.refs, << >>), LAMBDA body :
        set_out(body.b, c.out, body.out)))

\* The input record a closure of create_subchip builds from its argument
\* peer and from what it captures.
closure_inputs(ins, env, ss, peer) ==
    collect([i \in 1..Len(ss) |->
                IF ss[i].src = "peerout" THEN Input_ChipOutput(get_out(peer)[ss[i].j])
                ELSE into_Input(ins, env, ss[i])])

\* create_subchip(arena, f, g) of two chips: both are allocated with their
\* outputs unbound, then each one's set_inputs is called with what its
\* closure builds from the other.
create_subchip_chips(b, ins, env, stmt) ==
    let(DefaultChip_new(b, stmt.la), LAMBDA a :
    let(DefaultChip_new(a.b, stmt.lb), LAMBDA c :
    let(DefaultChip_set_inputs(c.b, a.chip, closure_inputs(ins, env, stmt.f, c.chip)),
        LAMBDA b1 :
            [b     |-> DefaultChip_set_inputs(b1, c.chip,
                                              closure_inputs(ins, env, stmt.g, a.chip)),
             chips |-> <<a.chip, c.chip>>])))

\* The rest of the body after a statement that bound a node, a chip, the two
\* Nands of a create_subchip, or its two chips.
inner_node(n, kind, fn, ins, env) ==
    inner(n.b, fn, ins, Append(env, [kind |-> kind, ref |-> n.ref]))

inner_chip(c, fn, ins, env) ==
    inner(c.b, fn, ins, Append(env, [kind |-> "Chip", chip |-> c.chip]))

inner_subchip(p, fn, ins, env) ==
    inner(p.b, fn, ins, Append(env, [kind |-> "Subchip", refs |-> p.refs]))

inner_subchips(p, fn, ins, env) ==
    inner(p.b, fn, ins, Append(env, [kind |-> "Subchips", chips |-> p.chips]))

\* The body of the chip function, statement by statement; env holds what the
\* statements so far have bound.
inner(b, fn, ins, env) ==
    IF Len(env) = Len(fn.body)
    THEN [b   |-> b,
          out |-> collect([j \in 1..Len(fn.out) |-> into_ChipOutputType(ins, env, fn.out[j])])]
    ELSE LET stmt == fn.body[Len(env) + 1]
         IN CASE stmt.op = "Nand" ->
                   inner_node(Nand_new(b, into_Input(ins, env, stmt.in1),
                                          into_Input(ins, env, stmt.in2)),
                              "Nand", fn, ins, env)
              [] stmt.op = "UserInput" ->
                   inner_node(UserInput_from(b, stmt.val), "UserInput", fn, ins, env)
              [] stmt.op = "Chip" ->
                   inner_chip(new(b, stmt.label,
                                  collect([i \in 1..Len(stmt.inputs) |->
                                              into_Input(ins, env, stmt.inputs[i])])),
                              fn, ins, env)
              [] stmt.op = "Subchip" ->
                   inner_subchip(create_subchip(b, ins, env, stmt.f, stmt.g), fn, ins, env)
              [] stmt.op = "Subchips" ->
                   inner_subchips(create_subchip_chips(b, ins, env, stmt), fn, ins, env)
              [] stmt.op = "Default" ->
                   inner_chip(DefaultChip_new(b, stmt.label), fn, ins, env)

\* The eager constructor <Label>::new(alloc, inputs): ChipInputs, then the
\* chip function, then ChipOutputs, then the chip struct.
new(b, label, inputs) ==
    let(function_params(b, inputs, << >>), LAMBDA ci :
    let(inner(ci.b, ChipFn(label, Len(inputs)), ci.refs, << >>), LAMBDA body :
    let(chipout(body.b, body.out, << >>), LAMBDA co :
        from_output(co.b, label, co.refs))))

(***************************************************************************)
(* Evaluation (hdl): Input / ChipInput / ChipOutput / Nand ::process       *)
(*                                                                         *)
(* The recursion of process() is modelled with its call stack made         *)
(* explicit.  st = [arena, evals, reads, stamps, fault, stack, val]: stack *)
(* holds one frame [fn, n, pc, in1] for every Nand::process and            *)
(* ChipOutput::process call that has not returned (innermost first), pc    *)
(* is the point the frame is at, and val is the value the last call to     *)
(* return returned.  Input::process and ChipInput::process hold nothing    *)
(* across their one call and return its value unchanged, so they keep no   *)
(* frame.  evals and reads are the instrumented counters of the            *)
(* evaluation: reads counts the process() calls made on a node, evals the  *)
(* calls that went past the cache test, and stamps keeps the stamp the     *)
(* node had at that point.                                                 *)
(*                                                                         *)
(* A node that goes past its cache test while an earlier call on it is     *)
(* still on the stack recurses again as that call did (no node of the      *)
(* cycle is stamped before its inputs return), so the recursion has no     *)
(* end and the thread's stack overflows: fault "stack_overflow".           *)
(***************************************************************************)

Fault(st, what) == [st EXCEPT !.fault = what]

Read(st, n) == [st EXCEPT !.reads[n] = @ + 1]

\* Node n is past its cache test and turns to its inputs; the stamp it has at
\* this point is noted.
Compute(st, n) == [st EXCEPT !.evals[n] = @ + 1, !.stamps[n] = st.arena[n].iteration]

\* A call enters fn::process on node n.
Call(st, fn, n) ==
    [st EXCEPT !.stack = <<[fn |-> fn, n |-> n, pc |-> "entry", in1 |-> FALSE]>> \o @]

\* The innermost call returns v.
Return(st, v) == [st EXCEPT !.stack = Tail(@), !.val = v]

\* The innermost call moves on to pc.
Goto(st, pc) == [st EXCEPT !.stack[1].pc = pc]

\* An earlier call on node n has not returned.
Active(st, n) == \E i \in 2..Len(st.stack) : st.stack[i].n = n

RECURSIVE Input_process(_, _)
RECURSIVE ChipInput_process(_, _)

\* match self { .. => x.process(iteration) }
Input_process(st, in_) ==
    CASE in_.variant = "UserInput"  -> [st EXCEPT !.val = st.arena[in_.ref].value]
      [] in_.variant = "ChipOutput" -> Call(st, "ChipOutput", in_.inner)
      [] in_.variant = "ChipInput"  -> ChipInput_process(st, in_.ref)
      [] in_.variant = "NandInput"  -> Call(st, "Nand", in_.ref)
      [] in_.variant = "None"       -> Fault(st, "unbound")

\* self.in_.process(iteration)
ChipInput_process(st, n) == Input_process(st, st.arena[n].in_)

\* ChipOutputType::process that reads an unbound source as false.
ChipOutputType_process_unbound_false(st, out) ==
    CASE out.variant = "ChipOutput" -> Call(st, "ChipOutput", out.inner)
      [] out.variant = "NandOutput" -> Call(st, "Nand", out.ref)
      [] out.variant = "ChipInput"  -> ChipInput_process(st, out.ref)
      [] out.variant = "None"       -> [st EXCEPT !.val = FALSE]

\* match &self.out { .. => x.process(iteration) }
ChipOutputType_process(st, out) ==
    CASE out.variant = "ChipOutput" -> Call(st, "ChipOutput", out.inner)
      [] out.variant = "NandOutput" -> Call(st, "Nand", out.ref)
      [] out.variant = "ChipInput"  -> ChipInput_process(st, out.ref)
      [] out.variant = "None"       -> Fault(st, "unbound")

\* ChipOutput::process whose cache test passes once the node has ever been
\* stamped, whatever the tick.
ChipOutput_process_stale(st, f, iteration) ==
    CASE f.pc = "entry" ->
            IF st.arena[f.n].iteration # 0
            THEN Return(Read(st, f.n), st.arena[f.n].value)
            ELSE IF Active(st, f.n) THEN Fault(Read(st, f.n), "stack_overflow")
            ELSE ChipOutputType_process(Goto(Compute(Read(st, f.n), f.n), "out"),
                                        st.arena[f.n].out)
      [] f.pc = "out" ->
            Return([st EXCEPT !.arena[f.n].iteration = iteration,
                              !.arena[f.n].value = st.val],
                   st.val)

\* ChipOutput::process, one step of the innermost frame f.
ChipOutput_process(st, f, iteration) ==
    CASE f.pc = "entry" ->
            IF st.arena[f.n].iteration = iteration
            THEN Return(Read(st, f.n), st.arena[f.n].value)
            ELSE IF Active(st, f.n) THEN Fault(Read(st, f.n), "stack_overflow")
            ELSE ChipOutputType_process(Goto(Compute(Read(st, f.n), f.n), "out"),
                                        st.arena[f.n].out)
      [] f.pc = "out" ->
            Return([st EXCEPT !.arena[f.n].iteration = iteration,
                              !.arena[f.n].value = st.val],
                   st.val)

\* Nand::process without its cache test: every call computes.
Nand_process_uncached(st, f, iteration) ==
    CASE f.pc = "entry" ->
            IF Active(st, f.n) THEN Fault(Read(st, f.n), "stack_overflow")
            ELSE Input_process(Goto(Compute(Read(st, f.n), f.n), "in1"),
                               st.arena[f.n].in1)
      [] f.pc = "in1" ->
            Input_process([st EXCEPT !.stack[1].in1 = st.val, !.stack[1].pc = "in2"],
                          st.arena[f.n].in2)
      [] f.pc = "in2" ->
            Return([st EXCEPT !.arena[f.n].iteration = iteration,
                              !.arena[f.n].value = ~(f.in1 /\ st.val)],
                   ~(f.in1 /\ st.val))

\* Nand::process that returns the right value and caches in1 && in2.
Nand_process_caches_and(st, f, iteration) ==
    CASE f.pc = "entry" ->
            IF iteration = st.arena[f.n].iteration
            THEN Return(Read(st, f.n), st.arena[f.n].value)
            ELSE IF Active(st, f.n) THEN Fault(Read(st, f.n), "stack_overflow")
            ELSE Input_process(Goto(Compute(Read(st, f.n), f.n), "in1"),
                               st.arena[f.n].in1)
      [] f.pc = "in1" ->
            Input_process([st EXCEPT !.stack[1].in1 = st.val, !.stack[1].pc = "in2"],
                          st.arena[f.n].in2)
      [] f.pc = "in2" ->
            Return([st EXCEPT !.arena[f.n].iteration = iteration,
                              !.arena[f.n].value = f.in1 /\ st.val],
                   ~(f.in1 /\ st.val))

\* Nand::process that does not evaluate in2 when in1 is false.
Nand_process_short_circuit(st, f, iteration) ==
    CASE f.pc = "entry" ->
            IF iteration = st.arena[f.n].iteration
            THEN Return(Read(st, f.n), st.arena[f.n].value)
            ELSE IF Active(st, f.n) THEN Fault(Read(st, f.n), "stack_overflow")
            ELSE Input_process(Goto(Compute(Read(st, f.n), f.n), "in1"),
                               st.arena[f.n].in1)
      [] f.pc = "in1" ->
            IF st.val
            THEN Input_process([st EXCEPT !.stack[1].in1 = st.val, !.stack[1].pc = "in2"],
                               st.arena[f.n].in2)
            ELSE Return([st EXCEPT !.arena[f.n].iteration = iteration,
                                   !.arena[f.n].value = TRUE],
                        TRUE)
      [] f.pc = "in2" ->
            Return([st EXCEPT !.arena[f.n].iteration = iteration,
                              !.arena[f.n].value = ~(f.in1 /\ st.val)],
                   ~(f.in1 /\ st.val))

\* Nand::process, one step of the innermost frame f.
Nand_process(st, f, iteration) ==
    CASE f.pc = "entry" ->
            IF iteration = st.arena[f.n].iteration
            THEN Return(Read(st, f.n), st.arena[f.n].value)
            ELSE IF Active(st, f.n) THEN Fault(Read(st, f.n), "stack_overflow")
            ELSE Input_process(Goto(Compute(Read(st, f.n), f.n), "in1"),
                               st.arena[f.n].in1)
      [] f.pc = "in1" ->
            Input_process([st EXCEPT !.stack[1].in1 = st.val, !.stack[1].pc = "in2"],
                          st.arena[f.n].in2)
      [] f.pc = "in2" ->
            Return([st EXCEPT !.arena[f.n].iteration = iteration,
                              !.arena[f.n].value = ~(f.in1 /\ st.val)],
                   ~(f.in1 /\ st.val))

Halted(st) == st.stack = << >> \/ st.fault # "none"

\* The innermost call makes its next step.
Step(st, iteration) ==
    IF st.stack[1].fn = "Nand"
    THEN Nand_process(st, st.stack[1], iteration)
    ELSE ChipOutput_process(st, st.stack[1], iteration)

\* Up to 2^k steps, stopping when st is halted.
RECURSIVE Steps(_, _, _)
Steps(st, iteration, k) ==
    IF Halted(st) THEN st
    ELSE IF k = 0 THEN Step(st, iteration)
    ELSE Steps(Steps(st, iteration, k - 1), iteration, k - 1)

\* Steps until st is halted.
RECURSIVE Run(_, _, _)
Run(st, iteration, k) ==
    IF Halted(st) THEN st ELSE Run(Steps(st, iteration, k), iteration, k + 1)

\* self.inner.process(iteration), from the call to its return.
ChipOutputWrapper_process(st, w, iteration) ==
    Run(Call(st, "ChipOutput", w.inner), iteration, 0)

(***************************************************************************)
(* Machine                                                                 *)
(***************************************************************************)

Output_new(b, output) ==
    [b      |-> [b EXCEPT !.counters["Output"] = fetch_add(@)],
     output |-> [output |-> output, identifier |-> b.counters["Output"]]]

\* [0; NINPUT].map(|_| UserInput::new(&alloc))
RECURSIVE Machine_inputs(_, _, _)
Machine_inputs(b, ninput, refs) ==
    IF Len(refs) = ninput THEN [b |-> b, refs |-> refs]
    ELSE LET ui == UserInput_new(b)
         IN Machine_inputs(ui.b, ninput, Append(refs, ui.ref))

\* chip.get_out(alloc).map(|out| Output::new(out))
RECURSIVE Machine_outputs(_, _, _)
Machine_outputs(b, wrappers, outs) ==
    IF Len(outs) = Len(wrappers) THEN [b |-> b, outputs |-> outs]
    ELSE LET o == Output_new(b, wrappers[Len(outs) + 1])
         IN Machine_outputs(o.b, wrappers, Append(outs, o.output))

\* Machine::new(alloc, <Label>::new)
Machine_new(b, ninput, label) ==
    let(Machine_inputs(b, ninput, << >>), LAMBDA ins :
    let(new(ins.b, label, collect([i \in 1..ninput |-> Input_UserInput(ins.refs[i])])),
        LAMBDA c :
    let(Machine_outputs(c.b, get_out(c.chip), << >>), LAMBDA outs :
        [b       |-> outs.b,
         machine |-> [inputs |-> ins.refs, outputs |-> outs.outputs, iteration |-> 0]])))

\* The zip taken against the values in reverse order.
set_inputs_reversed(m, ar, vals) ==
    [n \in 1..Len(ar) |->
        IF \E i \in 1..Len(m.inputs) : m.inputs[i] = n
        THEN [ar[n] EXCEPT !.value =
                 vals[Len(vals) + 1 - CHOOSE i \in 1..Len(m.inputs) : m.inputs[i] = n]]
        ELSE ar[n]]

\* for (in_, val) in self.inputs.iter().zip(input_vals) { in_.set(val) }
set_inputs_of(m, ar, vals) ==
    [n \in 1..Len(ar) |->
        IF \E i \in 1..Len(m.inputs) : m.inputs[i] = n
        THEN [ar[n] EXCEPT !.value = vals[CHOOSE i \in 1..Len(m.inputs) : m.inputs[i] = n]]
        ELSE ar[n]]

\* An increment that stays at 255 instead of wrapping or panicking.
increment_u8_saturating(x) ==
    {[panic |-> FALSE, value |-> IF x + 1 < Pow2(TickBits) THEN x + 1 ELSE x]}

\* self.iteration += 1 on a u8: the sum when it fits; at 255 a build with
\* overflow checks panics and a build without them wraps to 0.
increment_u8(x) ==
    IF x + 1 < Pow2(TickBits)
    THEN {[panic |-> FALSE, value |-> x + 1]}
    ELSE {[panic |-> TRUE, value |-> x], [panic |-> FALSE, value |-> 0]}

\* for (i, out) in outputs.iter().enumerate() { res[i] = out.output.process(..) }
RECURSIVE process_outputs(_, _, _, _)
process_outputs(st, outputs, iteration, acc) ==
    IF Len(acc) = Len(outputs) \/ st.fault # "none" THEN [st |-> st, res |-> acc]
    ELSE LET r == ChipOutputWrapper_process(st, outputs[Len(acc) + 1].output, iteration)
         IN process_outputs(r, outputs, iteration, Append(acc, r.val))

Zeros(ar) == [n \in 1..Len(ar) |-> 0]

\* Machine::process: what it leaves behind and what it returns.
Machine_process(m, ar, vals, iteration) ==
    process_outputs([arena |-> set_inputs_of(m, ar, vals), evals |-> Zeros(ar),
                     reads |-> Zeros(ar), stamps |-> Zeros(ar), fault |-> "none",
                     stack |-> << >>, val |-> FALSE],
                    m.outputs, iteration, << >>)

(***************************************************************************)
(* #[derive(StructuredData)] (hdl-macro)                                   *)
(*                                                                         *)
(* A struct declaration is the sequence of its named fields, each of type  *)
(* T or [T; len]; a value of the struct is a function from its field names *)
(* to T or to sequences of T; a flat array [T; arity] is a sequence.  The  *)
(* generated code names the flat positions in0, in1, .. and o0, o1, ..;    *)
(* here such a variable is its number.                                     *)
(***************************************************************************)

Scalar       == [array |-> FALSE, len |-> 0]
ArrayOf(len) == [array |-> TRUE, len |-> len]

\* fields.iter().map(|f| (fieldname, arraylen)): arraylen is the literal
\* length of an array type and 0 for any other type.
field_names_and_array_lens(fields) ==
    [k \in 1..Len(fields) |->
        [fieldname |-> fields[k].ident,
         arraylen  |-> IF fields[k].ty.array THEN fields[k].ty.len ELSE 0]]

\* The fold the generated mappings share: field by field, an array field
\* takes the variables i .. i+arraylen-1, any other field the variable i.
RECURSIVE fold_fields(_, _, _)
fold_fields(info, acc, i) ==
    IF Len(acc) = Len(info) THEN [list |-> acc, i |-> i]
    ELSE LET f == info[Len(acc) + 1]
         IN IF f.arraylen > 0
            THEN fold_fields(info,
                             Append(acc, [fieldname |-> f.fieldname, array |-> TRUE,
                                          vars |-> [x \in 1..f.arraylen |-> i + x - 1]]),
                             i + f.arraylen)
            ELSE fold_fields(info,
                             Append(acc, [fieldname |-> f.fieldname, array |-> FALSE,
                                          vars |-> << i >>]),
                             i + 1)

\* from_flat_mapping with the variables of an array field in reverse order.
from_flat_mapping_reversed(fields) ==
    LET m == fold_fields(field_names_and_array_lens(fields), << >>, 0).list
    IN [k \in 1..Len(m) |->
           [m[k] EXCEPT !.vars = [x \in 1..Len(m[k].vars) |-> m[k].vars[Len(m[k].vars) + 1 - x]]]]

\* from_flat_mapping: #fieldname: [in_i, ..] or #fieldname: in_i
from_flat_mapping(fields) ==
    fold_fields(field_names_and_array_lens(fields), << >>, 0).list

\* destructing_var_names: let [o_i, ..] = self.#fieldname or
\* let o_i = self.#fieldname
destructing_var_names(fields) ==
    fold_fields(field_names_and_array_lens(fields), << >>, 0).list

\* numvars, which is the generated arity
numvars(fields) ==
    fold_fields(field_names_and_array_lens(fields), << >>, 0).i

\* destructured_inputs: in_i pushed field by field, element by element
RECURSIVE destructured_inputs(_, _)
destructured_inputs(list, k) ==
    IF k > Len(list) THEN << >>
    ELSE list[k].vars \o destructured_inputs(list, k + 1)

\* fn from_flat(input: [T; arity]) -> Self:
\*   let [in0, in1, ..] = input; Name { field: [in_i, ..], field: in_i, .. }
from_flat(fields, input) ==
    LET names  == destructured_inputs(
                      fold_fields(field_names_and_array_lens(fields), << >>, 0).list, 1)
        in_(x) == input[CHOOSE p \in 1..Len(names) : names[p] = x]
        m      == from_flat_mapping(fields)
    IN [n \in {m[k].fieldname : k \in 1..Len(m)} |->
           LET f == m[CHOOSE k \in 1..Len(m) : m[k].fieldname = n]
           IN IF f.array THEN [j \in 1..Len(f.vars) |-> in_(f.vars[j])]
              ELSE in_(f.vars[1])]

\* to_flat that returns its variables in reverse order.
to_flat_reversed(fields, self) ==
    LET d    == destructing_var_names(fields)
        o(x) == LET f == d[CHOOSE k \in 1..Len(d) : \E j \in 1..Len(d[k].vars) : d[k].vars[j] = x]
                IN IF f.array
                   THEN self[f.fieldname][CHOOSE j \in 1..Len(f.vars) : f.vars[j] = x]
                   ELSE self[f.fieldname]
    IN [x \in 1..numvars(fields) |-> o(numvars(fields) - x)]

\* fn to_flat(self) -> [T; arity]:
\*   let [o_i, ..] = self.field; let o_i = self.field; ..; [o0, o1, ..]
to_flat(fields, self) ==
    LET d    == destructing_var_names(fields)
        o(x) == LET f == d[CHOOSE k \in 1..Len(d) : \E j \in 1..Len(d[k].vars) : d[k].vars[j] = x]
                IN IF f.array
                   THEN self[f.fieldname][CHOOSE j \in 1..Len(f.vars) : f.vars[j] = x]
                   ELSE self[f.fieldname]
    IN [x \in 1..numvars(fields) |-> o(x - 1)]

(***************************************************************************)
(* SpecData: a struct deriving StructuredData, a value of it or a flat     *)
(* array of its arity, and the two conversions applied one after the other *)
(***************************************************************************)

\* No conversion is in progress.
NoData == [pc |-> "none"]

\* No graph has been made of the Machine.
NoGraph == [pc |-> "none"]

\* No create_subchip call is followed.
NoBuild == [pc |-> "none"]

\* No second construction of the chip is kept.
NoTwin == [pc |-> "none"]

\* The k-th declared field is named FieldIdents[k].
FieldIdents == <<"num1", "num2", "bit", "out", "ou1">>

FieldTypes == {Scalar} \cup {ArrayOf(len) : len \in 1..MaxArrayLen}

\* Every struct of 1..MaxFields fields, each T or [T; 1..MaxArrayLen].
Structs ==
    UNION {{[k \in 1..n |-> [ident |-> FieldIdents[k], ty |-> tys[k]]] :
               tys \in [1..n -> FieldTypes]} : n \in 1..MaxFields}

\* Every value of a field of type ty, T being bool.
FieldValues(ty) == IF ty.array THEN [1..ty.len -> BOOLEAN] ELSE BOOLEAN

\* Every value of the struct whose first k fields are fields[1..k].
RECURSIVE StructValues(_, _)
StructValues(fields, k) ==
    IF k = 0 THEN {<< >>}
    ELSE {(fields[k].ident :> v) @@ t :
             v \in FieldValues(fields[k].ty), t \in StructValues(fields, k - 1)}

\* Every [bool; arity] of the struct.
FlatValues(fields) == [1..numvars(fields) -> BOOLEAN]

\* No Machine has been constructed.
NoMachine ==
    /\ arena = << >>
    /\ counters = EmptyBuilder.counters
    /\ machine = [inputs |-> << >>, outputs |-> << >>, iteration |-> 0]
    /\ chip = "none"
    /\ status = "none"
    /\ calls = 0
    /\ input_vals = << >>
    /\ ret = << >>
    /\ evals = << >>
    /\ stamps = << >>
    /\ reads = << >>
    /\ graph = NoGraph
    /\ build = NoBuild
    /\ twin = NoTwin

InitData ==
    /\ NoMachine
    /\ \E fields \in Structs :
          \/ \E t \in StructValues(fields, Len(fields)) :
                data = [pc |-> "start", fields |-> fields, from |-> "record", x |-> t]
          \/ \E a \in FlatValues(fields) :
                data = [pc |-> "start", fields |-> fields, from |-> "flat", x |-> a]

\* StructuredData::to_flat applied to the record in hand.
ToFlat ==
    /\ \/ /\ data.pc = "start" /\ data.from = "record"
          /\ data' = [data EXCEPT !.pc = "once"] @@ [y |-> to_flat(data.fields, data.x)]
       \/ /\ data.pc = "once" /\ data.from = "flat"
          /\ data' = [data EXCEPT !.pc = "twice"] @@ [z |-> to_flat(data.fields, data.y)]
    /\ UNCHANGED <<arena, counters, machine, chip, status, calls, input_vals, ret, evals, reads,
                   stamps, graph, build, twin>>

\* StructuredData::from_flat applied to the flat array in hand.
FromFlat ==
    /\ \/ /\ data.pc = "start" /\ data.from = "flat"
          /\ data' = [data EXCEPT !.pc = "once"] @@ [y |-> from_flat(data.fields, data.x)]
       \/ /\ data.pc = "once" /\ data.from = "record"
          /\ data' = [data EXCEPT !.pc = "twice"] @@ [z |-> from_flat(data.fields, data.y)]
    /\ UNCHANGED <<arena, counters, machine, chip, status, calls, input_vals, ret, evals, reads,
                   stamps, graph, build, twin>>

NextData == ToFlat \/ FromFlat

SpecData == InitData /\ [][NextData]_vars

(***************************************************************************)
(***************************************************************************)
(* Graphing (ui): graph_outputs and the functions it calls                 *)
(*                                                                         *)
(* A MermaidGraph is a tree of subgraphs keyed by chip id.  It is held     *)
(* flat: subgraphs is the set of the paths (sequences of chip ids from     *)
(* the root, << >>) at which a subgraph exists, and statements is the      *)
(* list of the statements pushed, each with the path of the subgraph it    *)
(* was pushed to.  node_set is the HashSet of GraphInputs, and panicked    *)
(* says that get_subgraph has unwrapped a subgraph that does not exist.    *)
(***************************************************************************)

MermaidNode(identifier, name) == [identifier |-> identifier, name |-> name]

\* format!("{}{}", self.identifier, self.name): the digits of the number,
\* then a name made of letters; held as the pair.
MermaidNode_get_label(node) == <<node.identifier, node.name>>

MermaidStatement_Line(from, to) == [stmt |-> "Line", from |-> from, to |-> to]
MermaidStatement_Node(node)     == [stmt |-> "Node", node |-> node]

\* MermaidGraph::new("", "".into()), with an empty node_set.
MermaidGraph_new ==
    [subgraphs |-> {<< >>}, statements |-> << >>, node_set |-> {}, panicked |-> FALSE]

\* graph_map.get_subgraph(path).statements.push(statement)
push(g, path, statement) ==
    IF g.panicked THEN g
    ELSE IF path \notin g.subgraphs THEN [g EXCEPT !.panicked = TRUE]
    ELSE [g EXCEPT !.statements = Append(@, [path |-> path, statement |-> statement])]

\* let current_graph = graph_map.get_subgraph(path);
\* if !current_graph.subgraphs.contains_key(chip_id) { insert(chip_id, new) }
insert_subgraph(g, path, chip_id) ==
    IF g.panicked THEN g
    ELSE IF path \notin g.subgraphs THEN [g EXCEPT !.panicked = TRUE]
    ELSE [g EXCEPT !.subgraphs = @ \cup {Append(path, chip_id)}]

node_set_insert(g, node) ==
    [g EXCEPT !.node_set = @ \cup {MermaidNode_get_label(node)}]

\* path.iter().all(|chip_id| show_chips.contains(chip_id)), answering true.
is_node_expanded_always(path, show_chips) == TRUE

\* path.iter().all(|chip_id| show_chips.contains(chip_id))
is_node_expanded(path, show_chips) ==
    \A i \in 1..Len(path) : path[i] \in show_chips

\* path.len() == 0 || path.iter().take(path.len() - 1).all(..)
is_node_shown(path, show_chips) ==
    \/ Len(path) = 0
    \/ \A i \in 1..(Len(path) - 1) : path[i] \in show_chips

\* Vec::pop: the last element is removed, if there is one.
pop(path) == IF Len(path) = 0 THEN path ELSE SubSeq(path, 1, Len(path) - 1)

graph_user_input(ar, g, ref) ==
    LET node == MermaidNode(ar[ref].id, "INPUT")
    IN IF MermaidNode_get_label(node) \in g.node_set
       THEN [g |-> g, node |-> node]
       ELSE [g |-> node_set_insert(g, node), node |-> node]

RECURSIVE graph_input(_, _, _, _, _)
RECURSIVE graph_chip_input(_, _, _, _, _)
RECURSIVE graph_output_wrapper(_, _, _, _, _)
RECURSIVE graph_nand(_, _, _, _, _)

graph_input(ar, g, path, show_chips, in_) ==
    CASE in_.variant = "UserInput"  -> graph_user_input(ar, g, in_.ref)
      [] in_.variant = "ChipOutput" -> graph_output_wrapper(ar, g, path, show_chips, in_)
      [] in_.variant = "ChipInput"  -> graph_chip_input(ar, g, path, show_chips, in_.ref)
      [] in_.variant = "NandInput"  -> graph_nand(ar, g, path, show_chips, in_.ref)

\* The statements graph_chip_input pushes once the source is graphed.
chip_input_statements(prev, node, path, new_path, show_chips) ==
    IF is_node_shown(path, show_chips)
    THEN [g    |-> push(push(prev.g, path, MermaidStatement_Node(node)),
                        new_path, MermaidStatement_Line(prev.node, node)),
          node |-> node]
    ELSE [g |-> prev.g, node |-> node]

\* graph_chip_input without the test of the node_set: a ChipInput is drawn
\* each time it is come to.
graph_chip_input_unvisited(ar, g, path, show_chips, ref) ==
    let(graph_input(ar, node_set_insert(g, MermaidNode(ar[ref].id, "IN")), pop(path),
                    show_chips, ar[ref].in_),
        LAMBDA prev : chip_input_statements(prev, MermaidNode(ar[ref].id, "IN"), path,
                                            pop(path), show_chips))

graph_chip_input(ar, g, path, show_chips, ref) ==
    LET node     == MermaidNode(ar[ref].id, "IN")
        new_path == pop(path)
    IN IF MermaidNode_get_label(node) \in g.node_set
       THEN [g |-> g, node |-> node]
       ELSE let(graph_input(ar, node_set_insert(g, node), new_path, show_chips, ar[ref].in_),
                LAMBDA prev : chip_input_statements(prev, node, path, new_path, show_chips))

\* The statement graph_output_wrapper pushes once the source is graphed.
output_wrapper_statements(prev, node, new_path, show_chips) ==
    IF is_node_shown(new_path, show_chips)
    THEN [g    |-> push(prev.g, new_path,
                        IF is_node_expanded(new_path, show_chips)
                        THEN MermaidStatement_Line(prev.node, node)
                        ELSE MermaidStatement_Node(node)),
          node |-> node]
    ELSE [g |-> prev.g, node |-> node]

\* match out.inner.get_out() { .. }, in the graph g and at new_path.
graph_chip_output_type(ar, g, new_path, show_chips, out) ==
    CASE out.variant = "ChipOutput" -> graph_output_wrapper(ar, g, new_path, show_chips, out)
      [] out.variant = "NandOutput" -> graph_nand(ar, g, new_path, show_chips, out.ref)
      [] out.variant = "ChipInput"  -> graph_chip_input(ar, g, new_path, show_chips, out.ref)

graph_output_wrapper(ar, g, path, show_chips, out) ==
    LET chip_id  == out.parent
        new_path == Append(path, chip_id)
        node     == MermaidNode(ar[out.inner].id, "OUT")
    IN IF MermaidNode_get_label(node) \in g.node_set
       THEN [g |-> g, node |-> node]
       ELSE let(graph_chip_output_type(
                    ar,
                    IF is_node_shown(new_path, show_chips)
                    THEN insert_subgraph(node_set_insert(g, node), path, chip_id)
                    ELSE node_set_insert(g, node),
                    new_path, show_chips, ar[out.inner].out),
                LAMBDA prev : output_wrapper_statements(prev, node, new_path, show_chips))

\* The two lines graph_nand pushes once both inputs are graphed.
nand_statements(from_1, from_2, node, path, show_chips) ==
    IF is_node_expanded(path, show_chips)
    THEN [g    |-> push(push(from_2.g, path, MermaidStatement_Line(from_1.node, node)),
                        path, MermaidStatement_Line(from_2.node, node)),
          node |-> node]
    ELSE [g |-> from_2.g, node |-> node]

graph_nand(ar, g, path, show_chips, ref) ==
    LET node == MermaidNode(ar[ref].id, "NAND")
    IN IF MermaidNode_get_label(node) \in g.node_set
       THEN [g |-> g, node |-> node]
       ELSE let(graph_input(ar, node_set_insert(g, node), path, show_chips, ar[ref].in1),
                LAMBDA from_1 :
            let(graph_input(ar, from_1.g, path, show_chips, ar[ref].in2),
                LAMBDA from_2 : nand_statements(from_1, from_2, node, path, show_chips)))

\* The line graph_output pushes to the root graph.
output_statement(r, out) ==
    push(r.g, << >>,
         MermaidStatement_Line(r.node, MermaidNode(out.identifier, "OUTPUT")))

graph_output(ar, g, show_chips, out) ==
    let(graph_output_wrapper(ar, g, << >>, show_chips, out.output),
        LAMBDA r : output_statement(r, out))

\* for out in outs.iter().rev() { graph_output(out, ..) }: the outputs
\* outs[1..k] are still to be graphed.
RECURSIVE graph_outputs_rev(_, _, _, _, _)
graph_outputs_rev(ar, g, show_chips, outs, k) ==
    IF k = 0 THEN g
    ELSE let(graph_output(ar, g, show_chips, outs[k]),
             LAMBDA g1 : graph_outputs_rev(ar, g1, show_chips, outs, k - 1))

graph_outputs(ar, outs, show_chips) ==
    graph_outputs_rev(ar, MermaidGraph_new, show_chips, outs, Len(outs))

\* graph_machine(&machine, show_chips)
graph_machine(ar, m, show_chips) == graph_outputs(ar, m.outputs, show_chips)

(* The circuits and the state machine                                      *)
(***************************************************************************)

NINPUT(c) ==
    CASE c = "Not" -> 1
      [] c \in {"And", "Or", "Xor", "Demux", "Testchip", "Testchip2", "Halfadder",
                 "Srlatch"} -> 2
      [] c \in {"Mux", "Fulladder"} -> 3
      [] c = "Adder16" -> 2 * AdderWidth
      [] c = "Incrementer16" -> AdderWidth
      [] c = "Alu" -> 2 * AluWidth + 6
      [] c \in {"Dlatch", "Dflipflop"} -> 2
      [] c = "Bit" -> 3
      [] c = "Register16" -> RegWidth + 2
      [] c = "Latebound" -> 1

\* Machine::new(&alloc, <chip>::new) in a fresh process.
Construct(c) == Machine_new(EmptyBuilder, NINPUT(c), c)

Bools(n) == [1..n -> BOOLEAN]

InitOf(chips) ==
    \E c \in chips :
        \E k \in {Construct(c)} :
           /\ chip = c
           /\ arena = k.b.arena
           /\ counters = k.b.counters
           /\ machine = k.machine
           /\ status = "constructed"
           /\ calls = 0
           /\ input_vals = << >>
           /\ ret = << >>
           /\ evals = Zeros(k.b.arena)
           /\ stamps = Zeros(k.b.arena)
           /\ reads = Zeros(k.b.arena)
           /\ data = NoData
           /\ graph = NoGraph
           /\ build = NoBuild
           /\ twin = NoTwin

\* One call machine.process(v): the inputs are written, the tick is
\* incremented, the outputs are evaluated in order.  A call that panics on
\* the increment or overflows the stack in the evaluation does not return.
Process(v, limit) ==
    /\ status \in {"constructed", "returned"}
    /\ calls < limit
    /\ \E inc \in increment_u8(machine.iteration) :
          /\ calls' = calls + 1
          /\ input_vals' = v
          /\ machine' = [machine EXCEPT !.iteration = inc.value]
          /\ IF inc.panic
             THEN /\ status' = "panicked"
                  /\ arena' = set_inputs_of(machine, arena, v)
                  /\ UNCHANGED <<ret, evals, reads, stamps>>
             ELSE \E r \in {Machine_process(machine, arena, v, inc.value)} :
                     IF r.st.fault = "none"
                     THEN /\ status' = "returned"
                          /\ arena' = r.st.arena
                          /\ evals' = r.st.evals
                          /\ reads' = r.st.reads
                          /\ stamps' = r.st.stamps
                          /\ ret' = r.res
                     ELSE /\ status' = "aborted"
                          /\ arena' = set_inputs_of(machine, arena, v)
                          /\ UNCHANGED <<ret, evals, reads, stamps>>
    /\ UNCHANGED <<counters, chip, data, graph, build, twin>>

\* Spec: the gates of project, the chips of hdl-macro-test and the Srlatch,
\* one Machine each; the Not circuit is run for LongRun calls.
GateChips == {"Not", "And", "Or", "Xor", "Mux", "Demux", "Testchip", "Testchip2",
              "Srlatch"}

Init == InitOf(GateChips)

Next ==
    \E v \in Bools(Len(machine.inputs)) :
        Process(v, IF chip = "Not" THEN LongRun ELSE MaxCalls)

Spec == Init /\ [][Next]_vars

\* SpecIds: machines constructed in a process whose COUNTERs have already
\* been advanced by earlier constructions (the statics are process-wide).
IdChips == {"Not", "And", "Xor", "Mux", "Testchip2"}

\* 0, 2^31 - 1 and 2^32 - 1 constructions of every kind made before.
IdStarts == {0, I32Max, -1}

InitIds ==
    \E c \in IdChips, c0 \in IdStarts :
        \E k \in {Machine_new(BuilderAt(c0), NINPUT(c), c)} :
           /\ chip = c
           /\ arena = k.b.arena
           /\ counters = k.b.counters
           /\ machine = k.machine
           /\ status = "constructed"
           /\ calls = 0
           /\ input_vals = << >>
           /\ ret = << >>
           /\ evals = Zeros(k.b.arena)
           /\ stamps = Zeros(k.b.arena)
           /\ reads = Zeros(k.b.arena)
           /\ data = NoData
           /\ graph = NoGraph
           /\ build = NoBuild
           /\ twin = NoTwin

NextIds == \E v \in Bools(Len(machine.inputs)) : Process(v, MaxCalls)

SpecIds == InitIds /\ [][NextIds]_vars

\* SpecGraph: a Machine that is graphed for one request, before or after a
\* process() call.
GraphChips == {"Not", "And", "Or", "Xor", "Mux", "Testchip2"}

InitGraph == InitOf(GraphChips)

\* get_id() of the chips constructed so far.
ChipIds == {id \in ChipLabels \X (0..8) : id[2] < counters[id[1]]}

\* graph_machine(&machine, show_chips) for the expanded ids of a request.
Graph ==
    /\ graph.pc = "none"
    /\ \E show_chips \in SUBSET ChipIds :
          graph' = [pc |-> "graphed", show_chips |-> show_chips,
                    g |-> graph_machine(arena, machine, show_chips)]
    /\ UNCHANGED <<arena, counters, machine, chip, status, calls, input_vals, ret, evals,
                   reads, stamps, data, build, twin>>

NextGraph ==
    \/ \E v \in Bools(Len(machine.inputs)) : Process(v, GraphProcessCalls)
    \/ Graph

SpecGraph == InitGraph /\ [][NextGraph]_vars

\* SpecArith: the adders, AdderWidth bits wide.
ArithChips == {"Halfadder", "Fulladder", "Adder16", "Incrementer16"}

InitArith == InitOf(ArithChips)

NextArith == \E v \in Bools(Len(machine.inputs)) : Process(v, ArithCalls)

SpecArith == InitArith /\ [][NextArith]_vars

\* SpecAlu: the Alu, AluWidth bits wide.
InitAlu == InitOf({"Alu"})

NextAlu == \E v \in Bools(Len(machine.inputs)) : Process(v, AluCalls)

SpecAlu == InitAlu /\ [][NextAlu]_vars

\* SpecSeq: the chips built on the Srlatch, the Register16 RegWidth bits
\* wide, and a chip with a late-bound subchip that was never bound.
SeqChips == {"Dlatch", "Dflipflop", "Bit", "Register16", "Latebound"}

InitSeq == InitOf(SeqChips)

NextSeq == \E v \in Bools(Len(machine.inputs)) : Process(v, SeqCalls)

SpecSeq == InitSeq /\ [][NextSeq]_vars

(***************************************************************************)
(* Properties of the evaluation engine, checked under Spec                 *)
(***************************************************************************)

Nodes == 1..Len(arena)

\* The value an Input has when every cache is ignored: what the circuit
\* computes from the UserInput cells of ar.
RECURSIVE SourceValue(_, _)
SourceValue(ar, s) ==
    CASE s.variant = "UserInput"  -> ar[s.ref].value
      [] s.variant = "ChipInput"  -> SourceValue(ar, ar[s.ref].in_)
      [] s.variant = "ChipOutput" -> SourceValue(ar, ar[s.inner].out)
      [] s.variant \in {"NandInput", "NandOutput"} ->
            ~(SourceValue(ar, ar[s.ref].in1) /\ SourceValue(ar, ar[s.ref].in2))

\* The value an Input holds in ar: the cell of a UserInput, the cache of a
\* Nand or ChipOutput, for a ChipInput that of its source.
RECURSIVE CachedValue(_, _)
CachedValue(ar, s) ==
    CASE s.variant = "UserInput"  -> ar[s.ref].value
      [] s.variant = "ChipInput"  -> CachedValue(ar, ar[s.ref].in_)
      [] s.variant = "ChipOutput" -> ar[s.inner].value
      [] s.variant = "NandInput"  -> ar[s.ref].value

\* What process(v) returns on a freshly constructed Machine of chip c.
FreshResult(c, v) ==
    LET k == Construct(c)
    IN Machine_process(k.machine, k.b.arena, v,
                       (CHOOSE inc \in increment_u8(k.machine.iteration) : ~inc.panic).value).res

\* The node a bound Input or ChipOutputType refers to.
Target(s) == IF s.variant = "ChipOutput" THEN s.inner ELSE s.ref

\* Every reference of the circuit points to a node allocated earlier.
FeedForward ==
    \A n \in Nodes :
        CASE arena[n].kind = "ChipInput"  -> Target(arena[n].in_) < n
          [] arena[n].kind = "ChipOutput" -> Target(arena[n].out) < n
          [] arena[n].kind = "Nand"       -> Target(arena[n].in1) < n /\ Target(arena[n].in2) < n
          [] OTHER -> TRUE

C2_ResultOfTheseInputs ==
    status = "returned" =>
        /\ \A i \in 1..Len(machine.inputs) :
              arena[machine.inputs[i]].value = input_vals[i]
        /\ \A j \in 1..Len(machine.outputs) :
              /\ arena[machine.outputs[j].output.inner].iteration = machine.iteration
              /\ ret[j] = SourceValue(arena, Input_ChipOutput(machine.outputs[j].output))

\* Testchip2 on its second call, with inputs that differ from each other.
C2_Witness ==
    /\ status = "returned"
    /\ chip = "Testchip2"
    /\ calls = 2
    /\ input_vals = <<TRUE, FALSE>>
    /\ ret = <<FALSE, FALSE>>

\* C3: after k process() calls that returned, the tick is k.
C3_TickIsCallCount ==
    status \in {"constructed", "returned"} => machine.iteration = calls

\* C4: on a feed-forward circuit, whatever calls were made before, process(v)
\* returns what process(v) returns on a freshly constructed Machine.
C4_HistoryIndependent ==
    (status = "returned" /\ FeedForward) => ret = FreshResult(chip, input_vals)

\* A Mux whose third call in a row returns true.
C4_Witness ==
    /\ status = "returned"
    /\ FeedForward
    /\ chip = "Mux"
    /\ calls = MaxCalls
    /\ ret = <<TRUE>>

\* C5: a Nand that computed its value in the call is stamped with the tick
\* and caches not(a and b) of the values its two inputs have at that tick.
C5_NandIsNotAnd ==
    status = "returned" =>
        \A n \in Nodes :
            (arena[n].kind = "Nand" /\ evals[n] = 1) =>
                /\ arena[n].iteration = machine.iteration
                /\ arena[n].value = ~(CachedValue(arena, arena[n].in1)
                                        /\ CachedValue(arena, arena[n].in2))

\* Nand(true, true) == false.
C5_Witness ==
    /\ status = "returned"
    /\ \E n \in Nodes :
          /\ arena[n].kind = "Nand"
          /\ evals[n] = 1
          /\ CachedValue(arena, arena[n].in1)
          /\ CachedValue(arena, arena[n].in2)
          /\ ~arena[n].value

\* C6: Not, And, Or, Xor, Mux and Demux return their truth tables.
C6_TruthTables ==
    status = "returned" =>
        LET v == input_vals
        IN CASE chip = "Not"   -> ret = << ~v[1] >>
             [] chip = "And"   -> ret = << v[1] /\ v[2] >>
             [] chip = "Or"    -> ret = << v[1] \/ v[2] >>
             [] chip = "Xor"   -> ret = << v[1] # v[2] >>
             [] chip = "Mux"   -> ret = << IF v[3] THEN v[2] ELSE v[1] >>
             [] chip = "Demux" -> ret = << v[1] /\ ~v[2], v[1] /\ v[2] >>
             [] OTHER          -> TRUE

\* Mux(in1=false, in2=true, sel=true) == true.
C6_Witness ==
    /\ status = "returned"
    /\ chip = "Mux"
    /\ input_vals = <<FALSE, TRUE, TRUE>>
    /\ ret = <<TRUE>>

(***************************************************************************)
(* Properties of the adders, checked under SpecArith                       *)
(***************************************************************************)

\* ntb of the tests: the w bits of n, most significant first.
ntb(n, w) == [i \in 1..w |-> (n \div Pow2(w - i)) % 2 = 1]

\* The number a bit array stands for, its first element the most
\* significant bit.
RECURSIVE btn(_)
btn(bits) ==
    IF bits = << >> THEN 0
    ELSE 2 * btn(SubSeq(bits, 1, Len(bits) - 1)) + (IF bits[Len(bits)] THEN 1 ELSE 0)

\* C7: Halfadder returns (sum, carry) = (a xor b, a and b), Fulladder the
\* 2-bit sum of its three inputs, Adder16 the sum of its two numbers modulo
\* 2^width, the carry out of the most significant bit dropped.
C7_Adders ==
    status = "returned" =>
        LET v == input_vals
        IN CASE chip = "Halfadder" -> ret = << v[1] # v[2], v[1] /\ v[2] >>
             [] chip = "Fulladder" ->
                    btn(<<ret[2], ret[1]>>) = btn(<<v[1]>>) + btn(<<v[2]>>) + btn(<<v[3]>>)
             [] chip = "Adder16" ->
                    ret = ntb((btn(SubSeq(v, 1, AdderWidth))
                                 + btn(SubSeq(v, AdderWidth + 1, 2 * AdderWidth)))
                              % Pow2(AdderWidth),
                              AdderWidth)
             [] OTHER -> TRUE

\* Adder16 of all ones and 1: the sum wraps to 0.
C7_Witness ==
    /\ status = "returned"
    /\ chip = "Adder16"
    /\ input_vals = ntb(Pow2(AdderWidth) - 1, AdderWidth) \o ntb(1, AdderWidth)
    /\ ret = ntb(0, AdderWidth)

\* The UserInput cells the chip function allocated itself: those numbered
\* after the Machine's own NINPUT cells.
ConstantCells ==
    {n \in Nodes : arena[n].kind = "UserInput" /\ arena[n].id >= NINPUT(chip)}

BitNot(a, w) == Pow2(w) - 1 - a

BitAnd(a, b, w) == btn([i \in 1..w |-> ntb(a, w)[i] /\ ntb(b, w)[i]])

BitOr(a, b, w) == btn([i \in 1..w |-> ntb(a, w)[i] \/ ntb(b, w)[i]])

\* The documented function of the Alu on w-bit numbers: zero, then negate,
\* each operand; add or and; negate the result.
AluFunction(x, y, zx, zy, nx, ny, f, no, w) ==
    LET x1 == IF zx THEN 0 ELSE x
        y1 == IF zy THEN 0 ELSE y
        x2 == IF nx THEN BitNot(x1, w) ELSE x1
        y2 == IF ny THEN BitNot(y1, w) ELSE y1
        o  == IF f THEN (x2 + y2) % Pow2(w) ELSE BitAnd(x2, y2, w)
    IN IF no THEN BitNot(o, w) ELSE o

\* The documented control codes <<zx, nx, zy, ny, f, no>> and what each
\* computes from x and y.
AluTable(x, y, w) ==
    { << <<1, 0, 1, 0, 1, 0>>, 0 >>,
      << <<1, 1, 1, 1, 1, 1>>, 1 >>,
      << <<1, 1, 1, 0, 1, 0>>, -1 >>,
      << <<0, 0, 1, 1, 0, 0>>, x >>,
      << <<1, 1, 0, 0, 0, 0>>, y >>,
      << <<0, 0, 1, 1, 0, 1>>, BitNot(x, w) >>,
      << <<1, 1, 0, 0, 0, 1>>, BitNot(y, w) >>,
      << <<0, 1, 1, 1, 1, 1>>, x + 1 >>,
      << <<1, 1, 0, 1, 1, 1>>, y + 1 >>,
      << <<0, 0, 1, 1, 1, 0>>, x - 1 >>,
      << <<1, 1, 0, 0, 1, 0>>, y - 1 >>,
      << <<0, 0, 0, 0, 1, 0>>, x + y >>,
      << <<0, 1, 0, 0, 1, 1>>, x - y >>,
      << <<0, 0, 0, 1, 1, 1>>, y - x >>,
      << <<0, 1, 0, 1, 0, 1>>, BitOr(x, y, w) >> }

Bit(b) == IF b THEN 1 ELSE 0

\* C9: for every x, y and control setting the Alu's out is the documented
\* function of them, which for the documented codes is the tabulated value
\* modulo 2^width; zr is true exactly when every out bit is false; ng is
\* out[0].
C9_AluFunction ==
    status = "returned" =>
        LET w   == AluWidth
            v   == input_vals
            x   == btn(SubSeq(v, 1, w))
            y   == btn(SubSeq(v, w + 1, 2 * w))
            zx  == v[2 * w + 1]
            zy  == v[2 * w + 2]
            nx  == v[2 * w + 3]
            ny  == v[2 * w + 4]
            f   == v[2 * w + 5]
            no  == v[2 * w + 6]
            out == SubSeq(ret, 1, w)
        IN /\ out = ntb(AluFunction(x, y, zx, zy, nx, ny, f, no, w), w)
           /\ \A e \in AluTable(x, y, w) :
                 e[1] = <<Bit(zx), Bit(nx), Bit(zy), Bit(ny), Bit(f), Bit(no)>> =>
                     btn(out) = (e[2] + Pow2(w)) % Pow2(w)
           /\ ret[w + 1] = (\A i \in 1..w : ~out[i])
           /\ ret[w + 2] = out[1]

\* x - y with x = 1, y = 2: out is -1, every bit true, ng set, zr clear.
C9_Witness ==
    /\ status = "returned"
    /\ input_vals = ntb(1, AluWidth) \o ntb(2, AluWidth)
                      \o <<FALSE, FALSE, TRUE, FALSE, TRUE, TRUE>>
    /\ ret = ntb(Pow2(AluWidth) - 1, AluWidth) \o <<FALSE, TRUE>>

(***************************************************************************)
(* Properties of the Srlatch, checked under Spec                           *)
(***************************************************************************)

\* An S/R pair of the active-low latch with not both inputs asserted.
ValidSR(v) == v[1] \/ v[2]

\* C10: every process() call on the Srlatch with a valid S/R pair returns;
\* when the call before it was made with the same pair it returns the same
\* outputs; and with s = true, r = true it returns the q of the call before.
C10_SrlatchStable ==
    [][(chip = "Srlatch" /\ ValidSR(input_vals')) =>
          /\ status' = "returned"
          /\ (status = "returned" /\ input_vals = input_vals') => ret' = ret
          /\ (status = "returned" /\ input_vals' = <<TRUE, TRUE>>) => ret'[1] = ret[1]]_vars

(***************************************************************************)
(* Properties of the chips built on the Srlatch, checked under SpecSeq     *)
(***************************************************************************)

\* The q (flat output 1) the call before returned; false before any call.
PreviousQ == IF status = "returned" THEN ret[1] ELSE FALSE

\* C11: every process() call on the Dflipflop (inputs data, clock) returns;
\* a call with clock = true returns the q of the call before; a call with
\* clock = false that follows a call with clock = true and data = d returns
\* q = d; a call with clock = false that follows a call with clock = false
\* returns the q of the call before, whatever data is.
C11_DflipflopTwoCalls ==
    [][chip = "Dflipflop" =>
          /\ status' = "returned"
          /\ input_vals'[2] => ret'[1] = PreviousQ
          /\ (status = "returned" /\ input_vals[2] /\ ~input_vals'[2]) =>
                ret'[1] = input_vals[1]
          /\ (status = "returned" /\ ~input_vals[2] /\ ~input_vals'[2]) =>
                ret'[1] = ret[1]]_vars

\* C12: every process() call on the Dlatch (inputs data, enable) returns;
\* with enable = true it returns q = data, with enable = false the q of the
\* call before, whatever data is.
C12_DlatchTransparent ==
    [][chip = "Dlatch" =>
          /\ status' = "returned"
          /\ input_vals'[2] => ret'[1] = input_vals'[1]
          /\ (status = "returned" /\ ~input_vals'[2]) => ret'[1] = ret[1]]_vars

\* C13: every process() call on the Bit and on the Register16 (inputs in_,
\* load, clock) returns; the first call returns out all false; a call with
\* clock = false that follows a call with load = true, clock = true and
\* in_ = v returns out = v; a call with load = false that follows a call
\* with load = false returns the out of that call, whatever in_ and clock
\* are.
C13_BitAndRegister ==
    [][(chip \in {"Bit", "Register16"}) =>
          (LET w == Len(machine.outputs)
           IN /\ status' = "returned"
              /\ status = "constructed" => ret' = [i \in 1..w |-> FALSE]
              /\ (status = "returned" /\ input_vals[w + 1] /\ input_vals[w + 2]
                    /\ ~input_vals'[w + 2]) =>
                    ret' = SubSeq(input_vals, 1, w)
              /\ (status = "returned" /\ ~input_vals[w + 1] /\ ~input_vals'[w + 1]) =>
                    ret' = ret)]_vars

(***************************************************************************)
(* Properties of StructuredData, checked under SpecData                    *)
(***************************************************************************)

\* C14: from_flat(to_flat(t)) = t for every value t of the struct, and
\* to_flat(from_flat(a)) = a for every flat array a of its arity.
C14_RoundTrip == data.pc = "twice" => data.z = data.x

\* Both round trips on TestchipInputs {num1: [T; 2], num2: [T; 2], bit: T}.
TestchipInputs ==
    << [ident |-> "num1", ty |-> ArrayOf(2)], [ident |-> "num2", ty |-> ArrayOf(2)],
       [ident |-> "bit", ty |-> Scalar] >>

\* A flat array of TestchipInputs taken to the record and back.
C14_Witness ==
    /\ data.pc = "twice"
    /\ data.fields = TestchipInputs
    /\ data.from = "flat"
    /\ data.x = <<TRUE, FALSE, FALSE, FALSE, TRUE>>
    /\ data.z = <<TRUE, FALSE, FALSE, FALSE, TRUE>>

\* The number of flat positions a field takes.
SizeOf(ty) == IF ty.array THEN ty.len ELSE 1

\* The number of flat positions the first k fields take.
RECURSIVE SizeOfFields(_, _)
SizeOfFields(fields, k) ==
    IF k = 0 THEN 0 ELSE SizeOfFields(fields, k - 1) + SizeOf(fields[k].ty)

\* C15: a record and its flat array correspond field by field in declared
\* order: the k-th field takes the positions after those of the fields
\* before it, an array field as many as its length, in index order, any
\* other field one; the arity is the sum of these sizes.
C15_FlatIsConcatenation ==
    data.pc \in {"once", "twice"} =>
        LET fields == data.fields
            rec    == IF data.from = "record" THEN data.x ELSE data.y
            flat   == IF data.from = "record" THEN data.y ELSE data.x
        IN /\ Len(flat) = SizeOfFields(fields, Len(fields))
           /\ \A k \in 1..Len(fields) :
                 LET off == SizeOfFields(fields, k - 1)
                 IN IF fields[k].ty.array
                    THEN rec[fields[k].ident] = SubSeq(flat, off + 1, off + fields[k].ty.len)
                    ELSE rec[fields[k].ident] = flat[off + 1]

\* inputs {num1: [T; 2], num2: [T; 2], bit: T} map to flat positions 0-1,
\* 2-3 and 4.
C15_Witness ==
    /\ data.pc = "once"
    /\ data.fields = TestchipInputs
    /\ data.from = "record"
    /\ data.x = [num1 |-> <<TRUE, FALSE>>, num2 |-> <<FALSE, FALSE>>, bit |-> TRUE]
    /\ data.y = <<TRUE, FALSE, FALSE, FALSE, TRUE>>

(***************************************************************************)
(* Properties of the late-bound protocol, checked under SpecSeq            *)
(***************************************************************************)

\* The ChipOutputs whose source is still unbound.
UnboundOutputs ==
    {n \in Nodes : arena[n].kind = "ChipOutput" /\ arena[n].out.variant = "None"}

IdsIncrease ==
    /\ \A m, n \in Nodes :
          (m < n /\ arena[m].kind = arena[n].kind) => u32_lt(arena[m].id, arena[n].id)
    /\ \A i, j \in 1..Len(machine.outputs) :
          i < j => u32_lt(machine.outputs[i].identifier, machine.outputs[j].identifier)

\* C17: of two nodes of the same kind the one constructed later has the
\* larger identifier (so no two share one), and no step changes the
\* identifier of a node.
C17_IdsUniqueIncreasing ==
    [][/\ IdsIncrease
       /\ \A n \in Nodes : arena'[n].id = arena[n].id
       /\ \A i \in 1..Len(machine.outputs) :
             machine'.outputs[i].identifier = machine.outputs[i].identifier]_vars

(***************************************************************************)
(* Properties of graphing, checked under SpecGraph                         *)
(***************************************************************************)

\* The statements pushed to the subgraph at path p.
StatementsAt(g, p) ==
    {g.statements[k].statement : k \in {i \in 1..Len(g.statements) : g.statements[i].path = p}}

ProperPrefix(p, q) == Len(p) < Len(q) /\ SubSeq(q, 1, Len(p)) = p

\* The ids of the ChipOutputs that a wrapper pairs with the chip chip_id.
OutputsOf(chip_id) ==
    {arena[w.inner].id :
        w \in {x \in {arena[n].in_ : n \in {m \in Nodes : arena[m].kind = "ChipInput"}}
                     \cup {arena[n].in1 : n \in {m \in Nodes : arena[m].kind = "Nand"}}
                     \cup {arena[n].in2 : n \in {m \in Nodes : arena[m].kind = "Nand"}}
                     \cup {arena[n].out : n \in {m \in Nodes : arena[m].kind = "ChipOutput"}}
                     \cup {[variant |-> "ChipOutput", inner |-> machine.outputs[i].output.inner,
                            parent |-> machine.outputs[i].output.parent] :
                              i \in 1..Len(machine.outputs)} :
                 x.variant = "ChipOutput" /\ x.parent = chip_id}}

\* C18: in the graph made for a set of expanded chip ids, the top-level chip
\* has a subgraph, a subgraph exists only where all ancestors are expanded,
\* and the subgraph of a chip that is not expanded holds nothing but IN
\* nodes and the OUT nodes of that chip: no subgraph lies inside it, it holds
\* no line, and no line to or from a NAND lies in any subgraph that is not
\* expanded.
C18_UnexpandedChipIsOpaque ==
    graph.pc = "graphed" =>
        LET g == graph.g
            show_chips == graph.show_chips
        IN /\ ~g.panicked
           /\ \E p \in g.subgraphs : Len(p) = 1
           /\ \A p \in g.subgraphs : is_node_shown(p, show_chips)
           /\ \A p \in g.subgraphs :
                 (p # << >> /\ p[Len(p)] \notin show_chips) =>
                     /\ \A q \in g.subgraphs : ~ProperPrefix(p, q)
                     /\ \A s \in StatementsAt(g, p) :
                           /\ s.stmt = "Node"
                           /\ s.node.name \in {"IN", "OUT"}
                           /\ s.node.name = "OUT" =>
                                 s.node.identifier \in OutputsOf(p[Len(p)])
           /\ \A k \in 1..Len(g.statements) :
                 LET s == g.statements[k]
                 IN (/\ s.statement.stmt = "Line"
                     /\ "NAND" \in {s.statement.from.name, s.statement.to.name})
                        => is_node_expanded(s.path, show_chips)

\* The Mux graphed with only itself expanded: its first And is drawn with
\* its IN and OUT nodes, and the And's Nand and Not are not drawn.
C18_Witness ==
    /\ chip = "Mux"
    /\ graph.pc = "graphed"
    /\ graph.show_chips = {<<"Mux", 0>>}
    /\ LET p == << <<"Mux", 0>>, <<"And", 0>> >>
       IN /\ p \in graph.g.subgraphs
          /\ \E s \in StatementsAt(graph.g, p) : s.stmt = "Node" /\ s.node.name = "IN"
          /\ \E s \in StatementsAt(graph.g, p) : s.stmt = "Node" /\ s.node.name = "OUT"

(***************************************************************************)
(* Properties of the order of stamping, checked under Spec                 *)
(***************************************************************************)

\* C19: every Nand and ChipOutput that was computed in a process() call was
\* already stamped with the tick of the call when it turned to its inputs.
C19_StampedBeforeInputs ==
    status = "returned" =>
        \A n \in Nodes :
            (arena[n].kind \in {"Nand", "ChipOutput"} /\ evals[n] > 0) =>
                stamps[n] = machine.iteration

\* The Nand that output i of the Machine's chip is taken from.
OutputNand(i) == arena[machine.outputs[i].output.inner].out.ref

\* C20: a process() call on the Srlatch evaluates q's Nand, which reads nq's
\* Nand, which reads q's Nand again; that inner read returns the value q's
\* Nand held when the call began (the one stored by the call before, false
\* before any call), so nq = not(r and that value) and q = not(s and nq).
C20_ReentrantReadIsPreviousValue ==
    [][(chip = "Srlatch") =>
          (LET previous == arena[OutputNand(1)].value
               nq == ~(input_vals'[2] /\ previous)
           IN /\ status' = "returned"
              /\ ret' = <<~(input_vals'[1] /\ nq), nq>>)]_vars

(***************************************************************************)
(* Termination of process(), checked under Spec                            *)
(***************************************************************************)

\* C21: every process() call terminates, on circuits with feedback loops
\* too: the evaluation of a call never enters the computation of a node that
\* it is already computing, so it never recurses without bound.
C21_ProcessTerminates ==
    [][(calls' = calls + 1 /\ status' # "panicked") =>
          Machine_process(machine, arena, input_vals',
                          machine'.iteration).st.fault # "stack_overflow"]_vars

(***************************************************************************)
(* create_subchip, call by call: SpecSubchip                               *)
(*                                                                         *)
(* One create_subchip(arena, f, g) call in the body of a chip function     *)
(* with SubchipInputs ChipInputs, followed through its four calls:         *)
(* A::new(arena), B::new(arena), a.set_inputs(arena, f((b,))) and          *)
(* b.set_inputs(arena, g((a,))).  build.stmt is the call, with its         *)
(* closures; build.a and build.c are A and B (a Nand, or a chip struct).   *)
(***************************************************************************)

\* Number of ChipInputs of the chip function that makes the call (the three
\* of bit).
SubchipInputs == 3

\* The NandInputs a closure can build from two of the ChipInputs and the
\* other Nand.
NandClosures == {<<s1, s2>> : s1, s2 \in {In(1), In(2), Peer}}

\* The create_subchip calls followed: every pair of Nands (that of srlatch
\* among them), the Dflipflop and Mux of bit, and two more pairs of chips.
SubchipStatements ==
    {Subchip(f, g) : f, g \in NandClosures}
        \cup {bit.body[1],
              Subchips("Not", "Not", <<PeerOut(1)>>, <<PeerOut(1)>>),
              Subchips("And", "Or", <<PeerOut(1), In(1)>>, <<In(2), PeerOut(1)>>)}

\* The arena when the chip function is entered: the UserInputs of a Machine
\* and the ChipInputs that function_params wraps them in.
SubchipContext ==
    let(Machine_inputs(EmptyBuilder, SubchipInputs, << >>), LAMBDA ins :
        function_params(ins.b,
                        collect([i \in 1..SubchipInputs |-> Input_UserInput(ins.refs[i])]),
                        << >>))

InitSubchip ==
    /\ \E stmt \in SubchipStatements :
          \E k \in {SubchipContext} :
             /\ arena = k.b.arena
             /\ counters = k.b.counters
             /\ build = [pc |-> "start", stmt |-> stmt, ins |-> k.refs, b0 |-> k.b]
    /\ machine = [inputs |-> << >>, outputs |-> << >>, iteration |-> 0]
    /\ chip = "none"
    /\ status = "none"
    /\ calls = 0
    /\ input_vals = << >>
    /\ ret = << >>
    /\ evals = << >>
    /\ stamps = << >>
    /\ reads = << >>
    /\ data = NoData
    /\ graph = NoGraph
    /\ twin = NoTwin

\* The arena and the COUNTERs in hand.
Builder == [arena |-> arena, counters |-> counters]

\* T::new(arena) of the late-bound protocol, T the Nand or the chip type
\* label: the builder after it, and the Nand or chip struct it returns.
Late_new(b, stmt, label) ==
    IF stmt.op = "Subchip"
    THEN let(Nand_default(b), LAMBDA n : [b |-> n.b, it |-> n.ref])
    ELSE let(DefaultChip_new(b, label), LAMBDA c : [b |-> c.b, it |-> c.chip])

\* it.set_inputs(arena, h((peer,))) of the late-bound protocol, h the
\* closure given by the sources ss.
Late_set_inputs(b, stmt, ins, it, ss, peer) ==
    IF stmt.op = "Subchip"
    THEN Nand_set_inputs(b, it, NandInputs(ins, << >>, ss, Input_NandInput(peer)))
    ELSE DefaultChip_set_inputs(b, it, closure_inputs(ins, << >>, ss, peer))

UnchangedBySubchip ==
    UNCHANGED <<machine, chip, status, calls, input_vals, ret, evals, reads, stamps, data,
                graph, twin>>

\* let a = A::new(arena)
SubchipNewA ==
    /\ build.pc = "start"
    /\ \E k \in {Late_new(Builder, build.stmt,
                          IF build.stmt.op = "Subchip" THEN "Nand" ELSE build.stmt.la)} :
          /\ arena' = k.b.arena
          /\ counters' = k.b.counters
          /\ build' = [build EXCEPT !.pc = "a"] @@ [a |-> k.it]
    /\ UnchangedBySubchip

\* let b = B::new(arena)
SubchipNewB ==
    /\ build.pc = "a"
    /\ \E k \in {Late_new(Builder, build.stmt,
                          IF build.stmt.op = "Subchip" THEN "Nand" ELSE build.stmt.lb)} :
          /\ arena' = k.b.arena
          /\ counters' = k.b.counters
          /\ build' = [build EXCEPT !.pc = "both"] @@ [c |-> k.it]
    /\ UnchangedBySubchip

\* a.set_inputs(arena, f((b,)))
SubchipSetInputsA ==
    /\ build.pc = "both"
    /\ \E b \in {Late_set_inputs(Builder, build.stmt, build.ins, build.a, build.stmt.f,
                                 build.c)} :
          /\ arena' = b.arena
          /\ counters' = b.counters
    /\ build' = [build EXCEPT !.pc = "bound_a"]
    /\ UnchangedBySubchip

\* b.set_inputs(arena, g((a,))), and the return of (a, b)
SubchipSetInputsB ==
    /\ build.pc = "bound_a"
    /\ \E b \in {Late_set_inputs(Builder, build.stmt, build.ins, build.c, build.stmt.g,
                                 build.a)} :
          /\ arena' = b.arena
          /\ counters' = b.counters
    /\ build' = [build EXCEPT !.pc = "returned"]
    /\ UnchangedBySubchip

NextSubchip ==
    \/ SubchipNewA
    \/ SubchipNewB
    \/ SubchipSetInputsA
    \/ SubchipSetInputsB

SpecSubchip == InitSubchip /\ [][NextSubchip]_vars

(***************************************************************************)
(* Properties of create_subchip, checked under SpecSubchip                 *)
(***************************************************************************)

\* The slots set_inputs is to write on the Nand or chip struct it: both
\* inputs of a Nand, the source of every ChipOutput of a chip.
SlotsOf(it) ==
    IF build.stmt.op = "Subchip"
    THEN {<<it, "in1">>, <<it, "in2">>}
    ELSE {<<it.out[i], "out">> : i \in 1..Len(it.out)}

\* The slots of A and B, as far as they are allocated.
LateSlots ==
    (IF build.pc \in {"a", "both", "bound_a", "returned"} THEN SlotsOf(build.a) ELSE {})
        \cup (IF build.pc \in {"both", "bound_a", "returned"} THEN SlotsOf(build.c) ELSE {})

SlotOf(ar, s) == ar[s[1]][s[2]]

\* The nodes an argument peer of a closure stands for: the Nand, or the
\* ChipOutputs of the chip.
NodesOf(it) ==
    IF build.stmt.op = "Subchip" THEN {it} ELSE {it.out[i] : i \in 1..Len(it.out)}

\* What set_inputs of step pc, with the closure ss over peer, has put where
\* ss reads its argument: a reference to a node of peer.  For a Nand these
\* are its own slots, for a chip the ChipInputs that set_inputs allocated
\* first, from node first on.
GivenPeer(ar, it, ss, peer, first) ==
    \A i \in 1..Len(ss) :
        /\ ss[i] = Peer => ar[it][IF i = 1 THEN "in1" ELSE "in2"] = Input_NandInput(peer)
        /\ ss[i].src = "peerout" =>
              /\ ar[first + i - 1].kind = "ChipInput"
              /\ ar[first + i - 1].in_.variant = "ChipOutput"
              /\ ar[first + i - 1].in_.inner = peer.out[ss[i].j]

\* What create_subchip returns for the call, computed in one piece as the
\* chip constructors compute it.
SubchipResult ==
    IF build.stmt.op = "Subchip"
    THEN let(create_subchip(build.b0, build.ins, << >>, build.stmt.f, build.stmt.g),
             LAMBDA r : [b |-> r.b, pair |-> r.refs])
    ELSE let(create_subchip_chips(build.b0, build.ins, << >>, build.stmt),
             LAMBDA r : [b |-> r.b, pair |-> r.chips])

Called ==
    /\ status \in {"constructed", "returned"}
    /\ calls < (IF chip = "Not" THEN LongRun ELSE MaxCalls)
    /\ calls' = calls + 1

\* SpecWrap: Spec with a caller that goes on calling process() as long as
\* the Machine can be called, so that the Machine of the Not is taken through
\* all its LongRun calls, past the wrap.
SpecWrap == Init /\ [][Next]_vars /\ WF_calls(Called)

\* The nodes node n evaluates when it is computed.
SourcesOf(n) ==
    CASE arena[n].kind = "ChipInput"  -> {Target(arena[n].in_)}
      [] arena[n].kind = "ChipOutput" ->
            IF arena[n].out = Unbound THEN {} ELSE {Target(arena[n].out)}
      [] arena[n].kind = "Nand" ->
            {Target(s) : s \in {arena[n].in1, arena[n].in2} \ {Unbound}}
      [] OTHER -> {}

RECURSIVE ReachableFrom(_)
ReachableFrom(S) ==
    IF UNION {SourcesOf(n) : n \in S} \subseteq S THEN S
    ELSE ReachableFrom(S \cup UNION {SourcesOf(n) : n \in S})

\* The Nands and ChipOutputs reachable from the Machine's outputs.
Memoized ==
    {n \in ReachableFrom({machine.outputs[i].output.inner : i \in 1..Len(machine.outputs)}) :
        arena[n].kind \in {"Nand", "ChipOutput"}}

\* The tick of the process() call that comes next, where the increment wraps.
NextTick == (machine.iteration + 1) % Pow2(TickBits)

\* A process() call made now would find a memoized node already stamped with
\* its tick, and take the node's cached value for the value of that tick.
StaleAtStart ==
    /\ status \in {"constructed", "returned"}
    /\ \E n \in Memoized : arena[n].iteration = NextTick

C24_AllStampedAfterCall ==
    status = "returned" =>
        \A n \in Memoized :
            /\ reads[n] >= 1
            /\ arena[n].iteration = machine.iteration
            /\ arena[n].iteration # NextTick

\* A Mux has returned from its second call, in which one of its Nands had a
\* first input that is false and a second input that is a memoized node; that
\* node was computed all the same and carries the tick.
C24_Witness ==
    /\ status = "returned"
    /\ chip = "Mux"
    /\ calls = 2
    /\ machine.iteration = 2
    /\ \E n \in Memoized :
          /\ arena[n].kind = "Nand"
          /\ ~CachedValue(arena, arena[n].in1)
          /\ Target(arena[n].in2) \in Memoized
          /\ evals[Target(arena[n].in2)] = 1
          /\ arena[Target(arena[n].in2)].iteration = 2

(***************************************************************************)
(* Complementary outputs of the Srlatch, checked under Spec                *)
(***************************************************************************)

\* C25: every process() call on the Srlatch with a valid S/R pair returns
\* outputs that are complementary: nq (flat output 2) is the negation of q
\* (flat output 1).
C25_SrlatchComplementary ==
    [][(chip = "Srlatch" /\ ValidSR(input_vals')) =>
          /\ status' = "returned"
          /\ ret'[2] = ~ret'[1]]_vars

(***************************************************************************)
(* The two construction protocols side by side: SpecTwin                   *)
(*                                                                         *)
(* The Machine of the other specifications is constructed with the eager   *)
(* <Label>::new.  twin holds a second Machine, in an arena of its own,     *)
(* whose chip is constructed by <Label as DefaultChip>::new followed by    *)
(* set_inputs with the same inputs; every process() call made on the first *)
(* is then made on the second with the same argument.                      *)
(***************************************************************************)

\* Number of process() calls explored on each of the two Machines.
TwinCalls == 3

\* Feed-forward chips generated by #[chip] (those without array arguments).
TwinChips == {"Not", "And", "Or", "Xor", "Mux", "Demux", "Testchip", "Testchip2",
              "Halfadder", "Fulladder"}

\* The new_fn |alloc, inputs| { let c = <Label as DefaultChip>::new(alloc);
\* c.set_inputs(alloc, inputs); c }
new_late(b, label, inputs) ==
    let(DefaultChip_new(b, label), LAMBDA c :
        [b |-> DefaultChip_set_inputs(c.b, c.chip, inputs), chip |-> c.chip])

\* Machine::new(alloc, new_fn) with that new_fn.
Machine_new_late(b, ninput, label) ==
    let(Machine_inputs(b, ninput, << >>), LAMBDA ins :
    let(new_late(ins.b, label, collect([i \in 1..ninput |-> Input_UserInput(ins.refs[i])])),
        LAMBDA c :
    let(Machine_outputs(c.b, get_out(c.chip), << >>), LAMBDA outs :
        [b       |-> outs.b,
         machine |-> [inputs |-> ins.refs, outputs |-> outs.outputs, iteration |-> 0]])))

InitTwin ==
    \E c \in TwinChips :
        \E k \in {Construct(c)}, l \in {Machine_new_late(EmptyBuilder, NINPUT(c), c)} :
           /\ chip = c
           /\ arena = k.b.arena
           /\ counters = k.b.counters
           /\ machine = k.machine
           /\ status = "constructed"
           /\ calls = 0
           /\ input_vals = << >>
           /\ ret = << >>
           /\ evals = Zeros(k.b.arena)
           /\ stamps = Zeros(k.b.arena)
           /\ reads = Zeros(k.b.arena)
           /\ data = NoData
           /\ graph = NoGraph
           /\ build = NoBuild
           /\ twin = [pc |-> "twin", arena |-> l.b.arena, machine |-> l.machine,
                      status |-> "constructed", calls |-> 0, ret |-> << >>]

\* What a process() call leaves of the second Machine: r is what
\* Machine_process made of it at the tick of the call.
twin_after(t, iteration, r) ==
    [pc      |-> "twin",
     arena   |-> r.st.arena,
     machine |-> [t.machine EXCEPT !.iteration = iteration],
     status  |-> IF r.st.fault = "none" THEN "returned" ELSE "aborted",
     calls   |-> t.calls + 1,
     ret     |-> r.res]

\* The call process(input_vals) that the first Machine has returned from is
\* made on the second Machine.
TwinProcess ==
    /\ status = "returned"
    /\ twin.status \in {"constructed", "returned"}
    /\ twin.calls < calls
    /\ \E inc \in increment_u8(twin.machine.iteration) :
          IF inc.panic
          THEN twin' = [twin EXCEPT !.status = "panicked", !.calls = @ + 1]
          ELSE \E r \in {Machine_process(twin.machine, twin.arena, input_vals, inc.value)} :
                  twin' = twin_after(twin, inc.value, r)
    /\ UNCHANGED <<arena, counters, machine, chip, status, calls, input_vals, ret, evals, reads,
                   stamps, data, graph, build>>

NextTwin ==
    \/ /\ twin.calls = calls
       /\ \E v \in Bools(Len(machine.inputs)) : Process(v, TwinCalls)
    \/ TwinProcess

SpecTwin == InitTwin /\ [][NextTwin]_vars

\* C26: a feed-forward chip constructed by the late-bound protocol
\* (DefaultChip::new, then set_inputs with the inputs I) and the same chip
\* constructed by the eager new with I return the same outputs, call after
\* call, whatever the arguments of the calls.
C26_LateBoundIsEager ==
    (status = "returned" /\ twin.calls = calls) =>
        /\ twin.status = "returned"
        /\ twin.ret = ret

\* Both Demuxes have returned from their third call, with two outputs that
\* differ from each other and from those of the call before.
C26_Witness ==
    /\ chip = "Demux"
    /\ status = "returned"
    /\ calls = 3
    /\ twin.calls = 3
    /\ twin.status = "returned"
    /\ input_vals = <<TRUE, FALSE>>
    /\ ret = <<TRUE, FALSE>>
    /\ twin.ret = <<TRUE, FALSE>>

(***************************************************************************)
(* Graphs of circuits with feedback: SpecGraphSeq                          *)
(***************************************************************************)

\* SpecGraphSeq: a Machine around cross-coupled Nands, among them the
\* Dflipflop that main() serves, graphed for one request and never run.
GraphSeqChips == {"Srlatch", "Dlatch", "Dflipflop"}

InitGraphSeq == InitOf(GraphSeqChips)

NextGraphSeq == Graph

SpecGraphSeq == InitGraphSeq /\ [][NextGraphSeq]_vars

\* The statements of g, in any subgraph, that draw the node labelled l: its
\* Node statement and the lines that end in it.
DrawnAs(g, l) ==
    {k \in 1..Len(g.statements) :
        \/ /\ g.statements[k].statement.stmt = "Node"
           /\ MermaidNode_get_label(g.statements[k].statement.node) = l
        \/ /\ g.statements[k].statement.stmt = "Line"
           /\ MermaidNode_get_label(g.statements[k].statement.to) = l}

\* The lines of the root graph from the OUT node of Machine output i to its
\* OUTPUT node.
OutputLines(g, i) ==
    {k \in 1..Len(g.statements) :
        /\ g.statements[k].path = << >>
        /\ g.statements[k].statement =
              MermaidStatement_Line(
                  MermaidNode(arena[machine.outputs[i].output.inner].id, "OUT"),
                  MermaidNode(machine.outputs[i].identifier, "OUTPUT"))}

\* C27: graph_machine returns for every set of expanded chips, on circuits
\* with feedback loops too, without a failed get_subgraph; every node is
\* expanded at most once, so that a Nand is drawn by at most its two input
\* lines and an IN or OUT node by at most one Node statement and one line;
\* and the root graph holds exactly one OUT --> OUTPUT line for every output
\* of the Machine and no other line to an OUTPUT node.
C27_GraphTerminates ==
    /\ [][graph'.pc = "graphed"]_vars
    /\ [](graph.pc = "graphed" =>
             /\ ~graph.g.panicked
             /\ \A l \in graph.g.node_set :
                   Cardinality(DrawnAs(graph.g, l)) <= 2
                   /\ (l[2] # "NAND" =>
                          \A j, k \in DrawnAs(graph.g, l) :
                              graph.g.statements[j].statement.stmt
                                  = graph.g.statements[k].statement.stmt => j = k)
             /\ \A i \in 1..Len(machine.outputs) :
                   Cardinality(OutputLines(graph.g, i)) = 1
             /\ Cardinality({k \in 1..Len(graph.g.statements) :
                                /\ graph.g.statements[k].statement.stmt = "Line"
                                /\ graph.g.statements[k].statement.to.name = "OUTPUT"})
                   = Len(machine.outputs))

\* The Dflipflop of main() graphed with every chip expanded: the graph holds
\* a Nand with a line from another Nand that has a line from the first: the
\* loop of a latch, drawn once.
C27_Witness ==
    /\ chip = "Dflipflop"
    /\ graph.pc = "graphed"
    /\ graph.show_chips = ChipIds
    /\ \E j, k \in 1..Len(graph.g.statements) :
          /\ graph.g.statements[j].statement.stmt = "Line"
          /\ graph.g.statements[k].statement.stmt = "Line"
          /\ graph.g.statements[j].statement.from.name = "NAND"
          /\ graph.g.statements[j].statement.to.name = "NAND"
          /\ graph.g.statements[k].statement.from = graph.g.statements[j].statement.to
          /\ graph.g.statements[k].statement.to = graph.g.statements[j].statement.from

(***************************************************************************)
(* SpecNames: the names the generated code gives the positions of a record *)
(*                                                                         *)
(* A name is <<field>> for "field" and <<field, k>> for "field-k".         *)
(***************************************************************************)

\* array_i -= 1 on a usize: the outcomes of the builds.  At 0 a build with
\* overflow checks panics and one without them wraps to 2^64 - 1, which is
\* written here by its representative -1 modulo 2^64.
usize_decrement(x) ==
    IF x = 0 THEN {[panic |-> TRUE], [panic |-> FALSE, v |-> 0 - 1]}
    ELSE {[panic |-> FALSE, v |-> x - 1]}

\* The closure of core::array::from_fn in get_output_names, called for the
\* positions Len(s.names) .. arity-1 in turn: the results it can come to
\* from the state s of field_i, array_i and the names returned so far.
RECURSIVE output_names_from(_, _, _)
output_names_from(field_names, arity, s) ==
    IF Len(s.names) = arity THEN {[panicked |-> FALSE, names |-> s.names]}
    ELSE IF s.field_i >= Len(field_names) THEN {[panicked |-> TRUE, names |-> s.names]}
    ELSE IF field_names[s.field_i + 1].arraylen = 0
    THEN output_names_from(field_names, arity,
                           [s EXCEPT !.field_i = @ + 1,
                                     !.names = Append(@, <<field_names[s.field_i + 1].fieldname>>)])
    ELSE UNION {IF d.panic THEN {[panicked |-> TRUE, names |-> s.names]}
                ELSE output_names_from(field_names, arity,
                        [field_i |-> IF d.v = 0 THEN s.field_i + 1 ELSE s.field_i,
                         array_i |-> IF d.v = 0 /\ s.field_i + 1 < Len(field_names)
                                     THEN field_names[s.field_i + 2].arraylen
                                     ELSE d.v,
                         names   |-> Append(s.names,
                                            <<field_names[s.field_i + 1].fieldname, d.v>>)]) :
                d \in usize_decrement(s.array_i)}

\* fn get_output_names() -> [String; arity], for the output struct with
\* the fields given: every result a build can give.
get_output_names(fields) ==
    output_names_from(field_names_and_array_lens(fields), numvars(fields),
                      [field_i |-> 0,
                       array_i |-> field_names_and_array_lens(fields)[1].arraylen,
                       names   |-> << >>])

\* The names function_params gives the ChipInputs of the arguments given, in
\* the order of the arguments: name, or name-i with i counted up from 0
\* along the array.
RECURSIVE function_params_names(_, _)
function_params_names(fields, k) ==
    IF k > Len(fields) THEN << >>
    ELSE (IF fields[k].ty.array
          THEN [i \in 1..fields[k].ty.len |-> <<fields[k].ident, i - 1>>]
          ELSE << <<fields[k].ident>> >>)
         \o function_params_names(fields, k + 1)

InitNames ==
    /\ NoMachine
    /\ \E fields \in Structs :
          data = [pc |-> "names", fields |-> fields, outputs |-> << >>, inputs |-> << >>]

UnchangedByNames ==
    UNCHANGED <<arena, counters, machine, chip, status, calls, input_vals, ret, evals, reads,
                stamps, graph, build, twin>>

\* Chip::get_output_names() of a chip whose outputs are the struct.
GetOutputNames ==
    /\ data.pc = "names"
    /\ data.outputs = << >>
    /\ \E r \in get_output_names(data.fields) :
          data' = [data EXCEPT !.outputs = << r >>]
    /\ UnchangedByNames

\* The ChipInputs made by new() of a chip whose arguments are the fields of
\* the struct.
InputNames ==
    /\ data.pc = "names"
    /\ data.inputs = << >>
    /\ data' = [data EXCEPT !.inputs = << function_params_names(data.fields, 1) >>]
    /\ UnchangedByNames

NextNames == GetOutputNames \/ InputNames

SpecNames == InitNames /\ [][NextNames]_vars

\* C28: for every output struct, in every order of its scalar and array
\* fields, get_output_names returns without a panic one name per flat
\* position, the field's name for a scalar field and field-k for element k of
\* an array field, which are the names the same fields get as inputs.
C28_OutputNames ==
    (data.pc = "names" /\ Len(data.outputs) = 1) =>
        /\ ~data.outputs[1].panicked
        /\ Len(data.outputs[1].names) = numvars(data.fields)
        /\ data.outputs[1].names = function_params_names(data.fields, 1)
        /\ Len(data.inputs) = 1 => data.outputs[1].names = data.inputs[1]

====
